---- MODULE Spec2Model ----
(***************************************************************************)
(* Sales aggregation and comparative analytics of the Telegram sales bot   *)
(* (src/telegram_bot.py).  The ledger is the ORDER sheet: a header row and *)
(* data rows, every cell a string.  Text is modelled as TLA+ strings       *)
(* (sequences of characters), calendar dates as day numbers counted from   *)
(* 1970-01-01, and amounts of money as exact fractions [n, d] in lowest    *)
(* terms (the code's float() results and their sums, without the binary    *)
(* rounding of the last bits).                                             *)
(***************************************************************************)
EXTENDS Integers, Sequences, FiniteSets, TLC

VARIABLES
    headers,    \* data['headers'] of the ORDER sheet
    rows,       \* data['data'] of the ORDER sheet, a sequence of rows
    now,        \* the current Philippine date (a day number)
    reply,      \* what the most recent operation computed, with the inputs it read
    bot,        \* the fields of the bot object: its two clients and awaiting_date_input
    env,        \* the services around the bot and the environment variables it reads
    tasks,      \* the handle_message coroutines suspended at their first await
    chat        \* per user: the "Custom Date" presses and the messages taken as a date

vars == <<headers, rows, now, reply, bot, env, tasks, chat>>

-----------------------------------------------------------------------------
(* Exact fractions.                                                        *)

RECURSIVE GCD(_, _)
GCD(a, b) == IF b = 0 THEN a ELSE GCD(b, a % b)

Rat(n, d) == LET g == GCD(IF n < 0 THEN -n ELSE n, d)
             IN  [n |-> n \div g, d |-> d \div g]

Zero == [n |-> 0, d |-> 1]

FromInt(k) == [n |-> k, d |-> 1]

\* a variant of the accumulation that keeps the last amount only
RKeepLast(a, b) == b

RAdd(a, b) == Rat(a.n * b.d + b.n * a.d, a.d * b.d)

RSub(a, b) == Rat(a.n * b.d - b.n * a.d, a.d * b.d)

RMul(a, b) == Rat(a.n * b.n, a.d * b.d)

\* a / b for b > 0
RDiv(a, b) == Rat(a.n * b.d, a.d * b.n)

RGt(a, b) == a.n * b.d > b.n * a.d

RECURSIVE Pow10(_)
Pow10(k) == IF k = 0 THEN 1 ELSE 10 * Pow10(k - 1)

-----------------------------------------------------------------------------
(* Python string operations.                                               *)

Char(s, i) == SubSeq(s, i, i)

Whitespace == {" ", "\t", "\n", "\r"}

AsciiDigits == {"0", "1", "2", "3", "4", "5", "6", "7", "8", "9"}

\* characters for which str.isdigit() is true although int() rejects them
SuperscriptDigits == {"²", "³"}

DigitVal(c) == CASE c = "0" -> 0 [] c = "1" -> 1 [] c = "2" -> 2 [] c = "3" -> 3
                 [] c = "4" -> 4 [] c = "5" -> 5 [] c = "6" -> 6 [] c = "7" -> 7
                 [] c = "8" -> 8 [] c = "9" -> 9

RECURSIVE LStrip(_)
LStrip(s) == IF s # "" /\ Char(s, 1) \in Whitespace
             THEN LStrip(SubSeq(s, 2, Len(s))) ELSE s

RECURSIVE RStrip(_)
RStrip(s) == IF s # "" /\ Char(s, Len(s)) \in Whitespace
             THEN RStrip(SubSeq(s, 1, Len(s) - 1)) ELSE s

\* str.strip()
Strip(s) == RStrip(LStrip(s))

\* needle in hay
Contains(hay, needle) ==
    \E i \in 0..(Len(hay) - Len(needle)) : SubSeq(hay, i + 1, i + Len(needle)) = needle

\* str.isdigit()
IsDigit(s) == s # "" /\ \A i \in 1..Len(s) : Char(s, i) \in AsciiDigits \cup SuperscriptDigits

\* int(s) raises ValueError
IntRaises(s) == LET t == Strip(s)
                IN  t = "" \/ \E i \in 1..Len(t) : Char(t, i) \notin AsciiDigits

RECURSIVE DigitsValue(_)
DigitsValue(s) == IF s = "" THEN 0
                  ELSE 10 * DigitsValue(SubSeq(s, 1, Len(s) - 1)) + DigitVal(Char(s, Len(s)))

\* int(s) when it does not raise
IntOf(s) == DigitsValue(Strip(s))

RECURSIVE NatStr(_)
NatStr(k) == LET c == SubSeq("0123456789", (k % 10) + 1, (k % 10) + 1)
             IN  IF k < 10 THEN c ELSE NatStr(k \div 10) \o c

Pad2(k) == IF k < 10 THEN "0" \o NatStr(k) ELSE NatStr(k)

-----------------------------------------------------------------------------
(* The price parser.                                                       *)

PriceClass == AsciiDigits \cup {".", ","}

\* the end of the run of [0-9.,] that starts at position i
RECURSIVE RunEnd(_, _)
RunEnd(s, i) == IF i < Len(s) /\ Char(s, i + 1) \in PriceClass THEN RunEnd(s, i + 1) ELSE i

\* re.findall(r'[0-9.,]+', s), scanning from position i
RECURSIVE FindAllFrom(_, _)
FindAllFrom(s, i) ==
    IF i > Len(s) THEN <<>>
    ELSE IF Char(s, i) \in PriceClass
         THEN <<SubSeq(s, i, RunEnd(s, i))>> \o FindAllFrom(s, RunEnd(s, i) + 1)
         ELSE FindAllFrom(s, i + 1)

FindAll(s) == FindAllFrom(s, 1)

\* s.replace(',', '')
RECURSIVE RemoveCommas(_)
RemoveCommas(s) == IF s = "" THEN ""
                   ELSE (IF Char(s, 1) = "," THEN "" ELSE Char(s, 1))
                        \o RemoveCommas(SubSeq(s, 2, Len(s)))

DotCount(s) == Cardinality({i \in 1..Len(s) : Char(s, i) = "."})

\* float(s) raises ValueError, for s made of digits and dots
FloatRaises(s) == DotCount(s) > 1 \/ DotCount(s) = Len(s)

\* float(s), for s made of digits and at most one dot
FloatOf(s) ==
    IF DotCount(s) = 0 THEN FromInt(DigitsValue(s))
    ELSE LET p == CHOOSE i \in 1..Len(s) : Char(s, i) = "."
             whole == SubSeq(s, 1, p - 1)
             frac == SubSeq(s, p + 1, Len(s))
         IN  Rat(DigitsValue(whole) * Pow10(Len(frac)) + DigitsValue(frac), Pow10(Len(frac)))

\* a variant that reads the last run of the cell
ParsePriceLastRun(price_value) ==
    IF price_value = "" THEN Zero
    ELSE LET numeric_parts == FindAll(price_value)
         IN  IF numeric_parts = <<>> THEN Zero
             ELSE LET clean_price == RemoveCommas(numeric_parts[Len(numeric_parts)])
                  IN  IF FloatRaises(clean_price) THEN Zero ELSE FloatOf(clean_price)

\* The try block of the revenue calculation: the order price of a price cell,
\* 0 where the cell is empty, holds no run, or float() raises.
ParsePrice(price_value) ==
    IF price_value = "" THEN Zero
    ELSE LET numeric_parts == FindAll(price_value)
         IN  IF numeric_parts = <<>> THEN Zero
             ELSE LET clean_price == RemoveCommas(numeric_parts[1])
                  IN  IF FloatRaises(clean_price) THEN Zero ELSE FloatOf(clean_price)

-----------------------------------------------------------------------------
(* Calendar dates: datetime arithmetic and strftime.                       *)

\* the day number of the civil date y-m-d (days since 1970-01-01)
DaysFromCivil(y, m, d) ==
    LET yy == IF m <= 2 THEN y - 1 ELSE y
        era == yy \div 400
        yoe == yy - era * 400
        mp == IF m > 2 THEN m - 3 ELSE m + 9
        doy == (153 * mp + 2) \div 5 + d - 1
        doe == yoe * 365 + yoe \div 4 - yoe \div 100 + doy
    IN  era * 146097 + doe - 719468

\* the civil date [year, month, day] of a day number
CivilFromDays(z0) ==
    LET z == z0 + 719468
        era == z \div 146097
        doe == z - era * 146097
        yoe == (doe - doe \div 1460 + doe \div 36524 - doe \div 146096) \div 365
        doy == doe - (365 * yoe + yoe \div 4 - yoe \div 100)
        mp == (5 * doy + 2) \div 153
        d == doy - (153 * mp + 2) \div 5 + 1
        m == IF mp < 10 THEN mp + 3 ELSE mp - 9
        y == yoe + era * 400 + (IF m <= 2 THEN 1 ELSE 0)
    IN  [year |-> y, month |-> m, day |-> d]

\* date.weekday(): Monday is 0 (1970-01-01 was a Thursday)
Weekday(z) == (z + 3) % 7

MonthNames == <<"January", "February", "March", "April", "May", "June", "July",
                "August", "September", "October", "November", "December">>

\* strftime('%B %d, %Y') of the civil date c
FormatLong(c) == MonthNames[c.month] \o " " \o Pad2(c.day) \o ", " \o NatStr(c.year)

\* strftime('%m/%d/%Y')
FormatPadded(c) == Pad2(c.month) \o "/" \o Pad2(c.day) \o "/" \o NatStr(c.year)

\* a variant that pads the month and the day of the third format too
FormatPlainPadded(c) == Pad2(c.month) \o "/" \o Pad2(c.day) \o "/" \o NatStr(c.year)

\* f"{d.month}/{d.day}/{d.year}"
FormatPlain(c) == NatStr(c.month) \o "/" \o NatStr(c.day) \o "/" \o NatStr(c.year)

\* strftime('%Y-%m-%d')
FormatISO(c) == NatStr(c.year) \o "-" \o Pad2(c.month) \o "-" \o Pad2(c.day)

get_date_formats(date_obj) ==
    LET c == CivilFromDays(date_obj)
    IN  <<FormatLong(c), FormatPadded(c), FormatPlain(c), FormatISO(c)>>

\* the format strings of a list of dates, four per date, in the order of the list
FormatsOfDates(dates) ==
    LET by_date == [i \in 1..Len(dates) |-> get_date_formats(dates[i])] \o <<>>
    IN  [k \in 1..(4 * Len(dates)) |-> by_date[((k - 1) \div 4) + 1][((k - 1) % 4) + 1]] \o <<>>

\* the dates first, first + 1, ..., first + count - 1
DateRange(first, count) == [i \in 1..count |-> first + i - 1]

-----------------------------------------------------------------------------
(* The row normalizer: columns, validity, typed fields.                    *)

\* row[i], with Python's index from 0
Cell(row, i) == row[i + 1]

\* headers.index(name) if name in headers else default
ColumnOf(hdr, name, default) ==
    IF \E i \in 1..Len(hdr) : hdr[i] = name
    THEN (CHOOSE i \in 1..Len(hdr) : hdr[i] = name /\ \A j \in 1..(i - 1) : hdr[j] # name) - 1
    ELSE default

Columns(hdr) ==
    [date_col |-> ColumnOf(hdr, "Order Date", 2),
     name_col |-> ColumnOf(hdr, "Name", 3),
     payment_status_col |-> ColumnOf(hdr, "Status Payment", 7),
     delivery_status_col |-> ColumnOf(hdr, "Status (Delivery)", 8),
     price_col |-> ColumnOf(hdr, "Price", 27)]

PouchCols == <<13, 14, 15, 16>>

TubCols == <<19, 20, 21, 22>>

\* a variant that wants the date, the name and the summary all present
IsValidOrderStrict(row) ==
    /\ ~(Len(row) <= 11)
    /\ Strip(Cell(row, 2)) # "" /\ Strip(Cell(row, 3)) # "" /\ Strip(Cell(row, 11)) # ""

\* The valid-order check: the row is long enough to hold column L and one of
\* columns C, D, L has a value.
IsValidOrder(row) ==
    /\ ~(Len(row) <= 11)
    /\ LET has_date == Len(row) > 2 /\ Strip(Cell(row, 2)) # ""
           has_name == Len(row) > 3 /\ Strip(Cell(row, 3)) # ""
           has_summary == Len(row) > 11 /\ Strip(Cell(row, 11)) # ""
       IN  has_date \/ has_name \/ has_summary

\* order_date_str
OrderDateStr(row, date_col) ==
    IF date_col < Len(row) THEN Strip(Cell(row, date_col)) ELSE ""

\* a variant without the flag: the fold sits inside the loop over the targets
TimesFoldedPerTarget(order_date_str, target_dates) ==
    Cardinality({k \in 1..Len(target_dates) :
        \/ order_date_str = target_dates[k]
        \/ Contains(order_date_str, target_dates[k])
        \/ Contains(target_dates[k], order_date_str)})

\* The number of times one row is folded for a list of target strings: the
\* loop over the targets sets a flag and breaks, and the fold follows the loop.
TimesFolded(order_date_str, target_dates) ==
    IF \E k \in 1..Len(target_dates) :
          \/ order_date_str = target_dates[k]
          \/ Contains(order_date_str, target_dates[k])
          \/ Contains(target_dates[k], order_date_str)
    THEN 1 ELSE 0

\* is_target_date of analyze_sales_for_dates and calculate_revenue_for_dates
IsTargetDate(order_date_str, target_dates) == TimesFolded(order_date_str, target_dates) > 0

\* a variant that looks for the target inside the cell only
IsTodayOneWay(order_date_str, today_formats) ==
    \E k \in 1..Len(today_formats) :
        IF order_date_str = today_formats[k] THEN TRUE
        ELSE Contains(order_date_str, today_formats[k])

\* is_today / is_this_week: the exact match is tried first, then the substrings
IsToday(order_date_str, today_formats) ==
    \E k \in 1..Len(today_formats) :
        IF order_date_str = today_formats[k] THEN TRUE
        ELSE \/ Contains(order_date_str, today_formats[k])
             \/ Contains(today_formats[k], order_date_str)

\* is_target_day / is_previous_month / is_this_month of the baseline scans
IsTargetDay(order_date_str, target_date_formats) ==
    \E k \in 1..Len(target_date_formats) :
        \/ order_date_str = target_date_formats[k]
        \/ Contains(target_date_formats[k], order_date_str)
        \/ Contains(order_date_str, target_date_formats[k])

CustomerName(row, name_col) ==
    IF name_col < Len(row) /\ Cell(row, name_col) # ""
    THEN Strip(Cell(row, name_col)) ELSE "Unknown Customer"

PriceCell(row, price_col) ==
    IF price_col < Len(row) THEN Cell(row, price_col) ELSE ""

OrderPrice(row, price_col) == ParsePrice(PriceCell(row, price_col))

PaymentStatus(row, payment_status_col) ==
    IF payment_status_col < Len(row) /\ Cell(row, payment_status_col) # ""
    THEN Strip(Cell(row, payment_status_col)) ELSE "Unpaid"

IsPaid(row, payment_status_col) == Contains(PaymentStatus(row, payment_status_col), "Paid")

DeliveryStatus(row, delivery_status_col) ==
    IF delivery_status_col < Len(row) /\ Cell(row, delivery_status_col) # ""
    THEN Strip(Cell(row, delivery_status_col)) ELSE "Pending"

\* a quantity cell passes the isdigit() test and int() then raises ValueError
QtyRaises(row, col) ==
    col < Len(row) /\ IsDigit(Strip(Cell(row, col))) /\ IntRaises(Cell(row, col))

QtyValue(row, col) ==
    IF col < Len(row) /\ IsDigit(Strip(Cell(row, col))) THEN IntOf(Cell(row, col)) ELSE 0

\* One try block of `+=` statements over the columns cols, in order: a raise
\* leaves the block, so only the statements before it have been applied.
BlockIncrements(row, cols) ==
    [k \in 1..Len(cols) |->
        IF \A j \in 1..k : ~QtyRaises(row, cols[j]) THEN QtyValue(row, cols[k]) ELSE 0]

AddCounts(a, b) == [k \in 1..4 |-> a[k] + b[k]]

NoCounts == <<0, 0, 0, 0>>

-----------------------------------------------------------------------------
(* The period aggregator.                                                  *)

NoMetrics ==
    [filtered_orders |-> <<>>, total_revenue |-> Zero, customers |-> {},
     pouches |-> NoCounts, tubs |-> NoCounts,
     paid_pouches |-> NoCounts, paid_tubs |-> NoCounts,
     paid_customers |-> <<>>, unpaid_customers |-> <<>>, undelivered_orders |-> <<>>,
     paid_revenue |-> Zero, unpaid_revenue |-> Zero]

\* a variant of the fold that leaves unpaid orders out of total_revenue
FoldOrderPaidTotal(m, i, row, c, split) ==
    LET customer_name == CustomerName(row, c.name_col)
        order_price == OrderPrice(row, c.price_col)
        both == BlockIncrements(row, PouchCols \o TubCols)
        p_inc == IF split THEN BlockIncrements(row, PouchCols) ELSE SubSeq(both, 1, 4)
        t_inc == IF split THEN BlockIncrements(row, TubCols) ELSE SubSeq(both, 5, 8)
        paid == IsPaid(row, c.payment_status_col)
    IN  [m EXCEPT
            !.filtered_orders = Append(@, i),
            !.customers = @ \cup {customer_name},
            !.total_revenue = IF paid THEN RAdd(@, order_price) ELSE @,
            !.pouches = AddCounts(@, p_inc),
            !.tubs = AddCounts(@, t_inc),
            !.paid_customers = IF paid THEN Append(@, customer_name) ELSE @,
            !.paid_revenue = IF paid THEN RAdd(@, order_price) ELSE @,
            !.paid_pouches = IF paid THEN AddCounts(@, p_inc) ELSE @,
            !.paid_tubs = IF paid THEN AddCounts(@, t_inc) ELSE @,
            !.unpaid_customers = IF paid THEN @ ELSE Append(@, customer_name),
            !.unpaid_revenue = IF ~paid /\ split THEN RAdd(@, order_price) ELSE @,
            !.undelivered_orders =
                IF DeliveryStatus(row, c.delivery_status_col) # "Delivered"
                THEN Append(@, customer_name) ELSE @]

\* a variant of the fold that lists every customer as unpaid and counts every
\* order's products as paid
FoldOrderListedTwice(m, i, row, c, split) ==
    LET customer_name == CustomerName(row, c.name_col)
        order_price == OrderPrice(row, c.price_col)
        both == BlockIncrements(row, PouchCols \o TubCols)
        p_inc == IF split THEN BlockIncrements(row, PouchCols) ELSE SubSeq(both, 1, 4)
        t_inc == IF split THEN BlockIncrements(row, TubCols) ELSE SubSeq(both, 5, 8)
        paid == IsPaid(row, c.payment_status_col)
    IN  [m EXCEPT
            !.filtered_orders = Append(@, i),
            !.customers = @ \cup {customer_name},
            !.total_revenue = RAdd(@, order_price),
            !.pouches = IF paid THEN AddCounts(@, p_inc) ELSE @,
            !.tubs = IF paid THEN AddCounts(@, t_inc) ELSE @,
            !.paid_customers = IF paid THEN Append(@, customer_name) ELSE @,
            !.paid_revenue = IF paid THEN RAdd(@, order_price) ELSE @,
            !.paid_pouches = AddCounts(@, p_inc),
            !.paid_tubs = AddCounts(@, t_inc),
            !.unpaid_customers = Append(@, customer_name),
            !.unpaid_revenue = IF ~paid /\ split THEN RAdd(@, order_price) ELSE @,
            !.undelivered_orders =
                IF DeliveryStatus(row, c.delivery_status_col) # "Delivered"
                THEN Append(@, customer_name) ELSE @]

\* The body of `if is_today:` for row number i.  sales_today_command and
\* sales_this_week_command keep the pouch and tub statements in separate try
\* blocks (split) and sum unpaid_revenue; the two custom-date analyses keep
\* them in one try block and have no unpaid_revenue.
FoldOrder(m, i, row, c, split) ==
    LET customer_name == CustomerName(row, c.name_col)
        order_price == OrderPrice(row, c.price_col)
        both == BlockIncrements(row, PouchCols \o TubCols)
        p_inc == IF split THEN BlockIncrements(row, PouchCols) ELSE SubSeq(both, 1, 4)
        t_inc == IF split THEN BlockIncrements(row, TubCols) ELSE SubSeq(both, 5, 8)
        paid == IsPaid(row, c.payment_status_col)
    IN  [m EXCEPT
            !.filtered_orders = Append(@, i),
            !.customers = @ \cup {customer_name},
            !.total_revenue = RAdd(@, order_price),
            !.pouches = AddCounts(@, p_inc),
            !.tubs = AddCounts(@, t_inc),
            !.paid_customers = IF paid THEN Append(@, customer_name) ELSE @,
            !.paid_revenue = IF paid THEN RAdd(@, order_price) ELSE @,
            !.paid_pouches = IF paid THEN AddCounts(@, p_inc) ELSE @,
            !.paid_tubs = IF paid THEN AddCounts(@, t_inc) ELSE @,
            !.unpaid_customers = IF paid THEN @ ELSE Append(@, customer_name),
            !.unpaid_revenue = IF ~paid /\ split THEN RAdd(@, order_price) ELSE @,
            !.undelivered_orders =
                IF DeliveryStatus(row, c.delivery_status_col) # "Delivered"
                THEN Append(@, customer_name) ELSE @]

\* m after the fold has run n times for the row
RECURSIVE FoldTimes(_, _, _, _, _, _)
FoldTimes(m, n, i, row, c, split) ==
    IF n = 0 THEN m ELSE FoldTimes(FoldOrder(m, i, row, c, split), n - 1, i, row, c, split)

\* `for row in rows:` of sales_today_command and sales_this_week_command, from row i on
RECURSIVE ScanToday(_, _, _, _, _)
ScanToday(m, i, hdr, rws, today_formats) ==
    IF i > Len(rws) THEN m
    ELSE LET row == rws[i]
             c == Columns(hdr)
             n == IF IsValidOrder(row) /\ IsToday(OrderDateStr(row, c.date_col), today_formats)
                  THEN 1 ELSE 0
         IN  ScanToday(FoldTimes(m, n, i, row, c, TRUE), i + 1, hdr, rws, today_formats)

\* `for row in rows:` of analyze_sales_for_dates(_with_query), from row i on
RECURSIVE ScanTargets(_, _, _, _, _)
ScanTargets(m, i, hdr, rws, target_dates) ==
    IF i > Len(rws) THEN m
    ELSE LET row == rws[i]
             c == Columns(hdr)
             n == IF IsValidOrder(row)
                  THEN TimesFolded(OrderDateStr(row, c.date_col), target_dates) ELSE 0
         IN  ScanTargets(FoldTimes(m, n, i, row, c, FALSE), i + 1, hdr, rws, target_dates)

-----------------------------------------------------------------------------
(* The historical baselines.  Each calculator reads the ORDER sheet itself *)
(* and returns 0 when the sheet has no headers or no data.                 *)

NoDay == [day_has_orders |-> FALSE, day_revenue |-> Zero]

\* `for row in rows:` of a baseline calculator, from row i on: whether a valid
\* row matches one of the target strings, and the summed price of the paid ones
RECURSIVE ScanDay(_, _, _, _, _)
ScanDay(day, i, hdr, rws, target_date_formats) ==
    IF i > Len(rws) THEN day
    ELSE LET row == rws[i]
             c == Columns(hdr)
             is_target_day ==
                 /\ IsValidOrder(row)
                 /\ IsTargetDay(OrderDateStr(row, c.date_col), target_date_formats)
             paid == is_target_day /\ IsPaid(row, c.payment_status_col)
         IN  ScanDay([day_has_orders |-> day.day_has_orders \/ is_target_day,
                      day_revenue |-> IF paid
                                      THEN RAdd(day.day_revenue, OrderPrice(row, c.price_col))
                                      ELSE day.day_revenue],
                     i + 1, hdr, rws, target_date_formats)

NoDays == [total_revenue |-> Zero, valid_days |-> 0]

\* a variant of the loop over the days that counts every day as a valid day
RECURSIVE TrailingDaysAll(_, _, _, _)
TrailingDaysAll(k, hdr, rws, today) ==
    IF k = 0 THEN NoDays
    ELSE LET before == TrailingDaysAll(k - 1, hdr, rws, today)
             day == ScanDay(NoDay, 1, hdr, rws, get_date_formats(today - (k - 1)))
         IN  [before EXCEPT !.total_revenue = RAdd(@, day.day_revenue), !.valid_days = @ + 1]

\* total_revenue and valid_days after the first k rounds of
\* `for days_back in range(n):`, that is after days_back = k - 1
RECURSIVE TrailingDays(_, _, _, _)
TrailingDays(k, hdr, rws, today) ==
    IF k = 0 THEN NoDays
    ELSE LET before == TrailingDays(k - 1, hdr, rws, today)
             day == ScanDay(NoDay, 1, hdr, rws, get_date_formats(today - (k - 1)))
         IN  IF day.day_has_orders
             THEN [before EXCEPT !.total_revenue = RAdd(@, day.day_revenue),
                                 !.valid_days = @ + 1]
             ELSE before

\* return total_revenue / valid_days if valid_days > 0 else 0
AverageOfDays(days) ==
    IF days.valid_days > 0 THEN RDiv(days.total_revenue, FromInt(days.valid_days)) ELSE Zero

calculate_7_day_average(hdr, rws, today) ==
    IF hdr = <<>> \/ rws = <<>> THEN Zero ELSE AverageOfDays(TrailingDays(7, hdr, rws, today))

calculate_30_day_average(hdr, rws, today) ==
    IF hdr = <<>> \/ rws = <<>> THEN Zero ELSE AverageOfDays(TrailingDays(30, hdr, rws, today))

\* daily_revenues: the paid revenue of today, yesterday, ... ten days in all
DailyRevenues(hdr, rws, today) ==
    [k \in 1..10 |->
        LET day == ScanDay(NoDay, 1, hdr, rws, get_date_formats(today - (k - 1)))
        IN  IF day.day_has_orders THEN day.day_revenue ELSE Zero]

\* a variant of the streak loop that does not stop at the first other day
StreakCountAll(daily_revenues, reference, is_above) ==
    Cardinality({k \in 1..Len(daily_revenues) : RGt(daily_revenues[k], reference) = is_above})

\* `for daily_rev in daily_revenues:` with its break
RECURSIVE StreakCount(_, _, _)
StreakCount(daily_revenues, reference, is_above) ==
    IF daily_revenues = <<>> THEN 0
    ELSE IF RGt(Head(daily_revenues), reference) = is_above
         THEN 1 + StreakCount(Tail(daily_revenues), reference, is_above)
         ELSE 0

NoStreak == [count |-> 0, type |-> ""]

calculate_performance_streak(today_revenue, seven_day_avg, hdr, rws, today) ==
    IF seven_day_avg = Zero \/ hdr = <<>> \/ rws = <<>> THEN NoStreak
    ELSE LET is_above_avg == RGt(today_revenue, seven_day_avg)
             current_pattern == IF is_above_avg THEN "above" ELSE "below"
         IN  [count |-> StreakCount(DailyRevenues(hdr, rws, today), seven_day_avg, is_above_avg),
              type |-> "consecutive days " \o current_pattern \o " 7-day average"]

calculate_target_streak(today_revenue, target_amount, hdr, rws, today) ==
    IF target_amount = Zero \/ hdr = <<>> \/ rws = <<>> THEN NoStreak
    ELSE LET is_above_target == RGt(today_revenue, target_amount)
             current_pattern == IF is_above_target THEN "above" ELSE "below"
             streak_count ==
                 StreakCount(DailyRevenues(hdr, rws, today), target_amount, is_above_target)
         IN  [count |-> streak_count,
              type |-> (IF streak_count # 1 THEN "days " ELSE "day ")
                           \o current_pattern \o " target"]

\* now.replace(day=1)
FirstOfMonth(today) == today - (CivilFromDays(today).day - 1)

\* the days of the month before today's, first to last
PreviousMonthDays(today) ==
    LET last_day_previous_month == FirstOfMonth(today) - 1
        first_day_previous_month == FirstOfMonth(last_day_previous_month)
    IN  DateRange(first_day_previous_month,
                  last_day_previous_month - first_day_previous_month + 1)

\* the days of today's month, the first up to today
ThisMonthDays(today) == DateRange(FirstOfMonth(today), today - FirstOfMonth(today) + 1)

calculate_last_month_total(hdr, rws, today) ==
    IF hdr = <<>> \/ rws = <<>> THEN Zero
    ELSE ScanDay(NoDay, 1, hdr, rws, FormatsOfDates(PreviousMonthDays(today))).day_revenue

calculate_this_month_total(hdr, rws, today) ==
    IF hdr = <<>> \/ rws = <<>> THEN Zero
    ELSE ScanDay(NoDay, 1, hdr, rws, FormatsOfDates(ThisMonthDays(today))).day_revenue

\* 1.10 and 100
TenPercentMore == Rat(11, 10)

Hundred == FromInt(100)

NoTargetInfo == [shown |-> FALSE, percentage |-> Zero, this_month_total |-> Zero,
                 target_amount |-> Zero, remaining |-> Zero]

\* lines 875-890 of get_monthly_target_info, the two month totals given
TargetInfo(this_month_total, last_month_total) ==
    IF RGt(last_month_total, Zero)
    THEN [shown |-> TRUE,
          percentage |-> RMul(RDiv(this_month_total, RMul(last_month_total, TenPercentMore)),
                              Hundred),
          this_month_total |-> this_month_total,
          target_amount |-> RMul(last_month_total, TenPercentMore),
          remaining |-> RSub(RMul(last_month_total, TenPercentMore), this_month_total)]
    ELSE [NoTargetInfo EXCEPT !.shown = TRUE, !.this_month_total = this_month_total]

get_monthly_target_info(hdr, rws, today) ==
    TargetInfo(calculate_this_month_total(hdr, rws, today),
               calculate_last_month_total(hdr, rws, today))

NoHistory ==
    [seven_day_avg |-> Zero, thirty_day_avg |-> Zero, streak |-> NoStreak,
     last_month_total |-> Zero, target_amount |-> Zero, target_achievement |-> Zero,
     target_streak |-> NoStreak, seven_day_diff |-> Zero, thirty_day_diff |-> Zero]

\* ((paid_revenue - avg) / avg * 100) if avg > 0 else 0
PercentDiff(paid_revenue, avg) ==
    IF RGt(avg, Zero) THEN RMul(RDiv(RSub(paid_revenue, avg), avg), Hundred) ELSE Zero

\* lines 1288-1299 of sales_today_command, the three sheet totals given
HistoryOf(paid_revenue, seven_day_avg, thirty_day_avg, last_month_total, hdr, rws, today) ==
    [seven_day_avg |-> seven_day_avg,
     thirty_day_avg |-> thirty_day_avg,
     streak |-> calculate_performance_streak(paid_revenue, seven_day_avg, hdr, rws, today),
     last_month_total |-> last_month_total,
     target_amount |-> RMul(last_month_total, TenPercentMore),
     target_achievement |-> IF RGt(RMul(last_month_total, TenPercentMore), Zero)
                            THEN RMul(RDiv(paid_revenue, RMul(last_month_total, TenPercentMore)),
                                      Hundred)
                            ELSE Zero,
     target_streak |-> calculate_target_streak(paid_revenue,
                                               RMul(last_month_total, TenPercentMore),
                                               hdr, rws, today),
     seven_day_diff |-> PercentDiff(paid_revenue, seven_day_avg),
     thirty_day_diff |-> PercentDiff(paid_revenue, thirty_day_avg)]

\* "Calculate historical performance metrics" of sales_today_command
HistoricalMetrics(paid_revenue, hdr, rws, today) ==
    HistoryOf(paid_revenue,
              calculate_7_day_average(hdr, rws, today),
              calculate_30_day_average(hdr, rws, today),
              calculate_last_month_total(hdr, rws, today),
              hdr, rws, today)

-----------------------------------------------------------------------------
(* The comparator of the custom-date analyses.                             *)

\* the format strings of the count days from first on
PeriodFormats(first, count) == FormatsOfDates(DateRange(first, count))

\* the paid revenue of the valid rows that match one of the target strings
calculate_revenue_for_dates(hdr, rws, target_dates) ==
    IF hdr = <<>> \/ rws = <<>> THEN Zero
    ELSE ScanDay(NoDay, 1, hdr, rws, target_dates).day_revenue

RECURSIVE SumOf(_)
SumOf(revenues) ==
    IF revenues = <<>> THEN Zero ELSE RAdd(Head(revenues), SumOf(Tail(revenues)))

\* a variant of the rolling average that divides by the number of all periods
AverageOfAll(revenues) ==
    IF revenues = <<>> THEN Zero ELSE RDiv(SumOf(revenues), FromInt(Len(revenues)))

\* sum(revenues) / len(revenues) over the revenues above 0, else 0
AverageOfPositive(revenues) ==
    AverageOfAll(SelectSeq(revenues, LAMBDA revenue : RGt(revenue, Zero)))

\* the revenues of the n earlier periods of count days that start step, 2 * step,
\* ... days before start
PastRevenues(start, count, step, n, hdr, rws) ==
    [i \in 1..n |->
        calculate_revenue_for_dates(hdr, rws, PeriodFormats(start - step * i, count))] \o <<>>

\* a variant of the branch selection that sends 14 days to the short range
ContextOfShort14(period_length) ==
    IF period_length = 1 THEN "single_day"
    ELSE IF 2 <= period_length /\ period_length <= 14 THEN "short_range"
    ELSE IF 15 <= period_length /\ period_length <= 32 THEN "monthly"
    ELSE "long_period"

\* the branch of get_contextual_performance
ContextOf(period_length) ==
    IF period_length = 1 THEN "single_day"
    ELSE IF 2 <= period_length /\ period_length <= 13 THEN "short_range"
    ELSE IF period_length = 14 THEN "two_weeks"
    ELSE IF 15 <= period_length /\ period_length <= 32 THEN "monthly"
    ELSE "long_period"

\* the keys of performance_data in a branch, in the order they are set
BaselineKeys(context) ==
    CASE context = "single_day" ->
            <<"seven_day_avg", "last_week_same_day", "weekday_pattern_avg">>
      [] context = "short_range" ->
            <<"previous_period", "rolling_avg", "same_period_last_month">>
      [] context = "two_weeks" ->
            <<"previous_2_weeks", "rolling_8week_avg", "same_2weeks_last_month">>
      [] context = "monthly" ->
            <<"previous_month", "quarterly_avg", "same_month_last_year">>
      [] OTHER -> <<>>

\* the values of these keys; start_date is date_objects[0]
BaselineValues(context, start_date, period_length, hdr, rws, today) ==
    CASE context = "single_day" ->
            <<calculate_7_day_average(hdr, rws, today),
              calculate_revenue_for_dates(hdr, rws, get_date_formats(start_date - 7)),
              AverageOfPositive(PastRevenues(start_date, 1, 7, 4, hdr, rws))>>
      [] context = "short_range" ->
            <<calculate_revenue_for_dates(hdr, rws,
                  PeriodFormats(start_date - period_length, period_length)),
              AverageOfPositive(PastRevenues(start_date, period_length, 7, 4, hdr, rws)),
              calculate_revenue_for_dates(hdr, rws,
                  PeriodFormats(start_date - 30, period_length))>>
      [] context = "two_weeks" ->
            <<calculate_revenue_for_dates(hdr, rws, PeriodFormats(start_date - 14, 14)),
              AverageOfPositive(PastRevenues(start_date, 14, 14, 4, hdr, rws)),
              calculate_revenue_for_dates(hdr, rws, PeriodFormats(start_date - 30, 14))>>
      [] context = "monthly" ->
            <<calculate_revenue_for_dates(hdr, rws,
                  PeriodFormats(start_date - period_length, period_length)),
              AverageOfPositive(PastRevenues(start_date, period_length, period_length, 3,
                                             hdr, rws)),
              calculate_revenue_for_dates(hdr, rws,
                  PeriodFormats(start_date - 365, period_length))>>
      [] OTHER -> <<>>

\* performance_data after "Calculate percentage differences": the baselines by
\* their position in BaselineKeys, and the <key>_diff entries that were set
PerformanceData(context, values, current_revenue) ==
    [context |-> context,
     values |-> values,
     diffs |-> [k \in {j \in 1..Len(values) :
                          RGt(current_revenue, Zero) /\ RGt(values[j], Zero)} |->
                   RMul(RDiv(RSub(current_revenue, values[k]), values[k]), Hundred)]]

NoPerformance == [context |-> "none", values |-> <<>>, diffs |-> <<>>]

get_contextual_performance(dates, current_revenue, hdr, rws, today) ==
    PerformanceData(ContextOf(Len(dates)),
                    BaselineValues(ContextOf(Len(dates)), dates[1], Len(dates), hdr, rws, today),
                    current_revenue)

\* the comparison lines of format_contextual_performance: for every baseline
\* above 0 the percentage the line shows, performance_data.get(<key>_diff, 0)
format_contextual_performance(performance_data) ==
    [k \in {j \in 1..Len(performance_data.values) : RGt(performance_data.values[j], Zero)} |->
        IF k \in DOMAIN performance_data.diffs THEN performance_data.diffs[k] ELSE Zero]

-----------------------------------------------------------------------------
(* The ledger the bot reads, and the requests it serves.                   *)

MaxRows == 2

MaxTicks == 1

\* 2025-08-01, a Friday
FirstDay == DaysFromCivil(2025, 8, 1)

\* a row of n cells, empty but for the cells f gives (indexed from 0)
MkRow(n, f) == [k \in 1..n |-> IF (k - 1) \in DOMAIN f THEN f[k - 1] ELSE ""]

StdHeaders ==
    MkRow(32, 2 :> "Order Date" @@ 3 :> "Name" @@ 7 :> "Status Payment"
              @@ 8 :> "Status (Delivery)" @@ 11 :> "Order Summary" @@ 27 :> "Price")

\* a header row that names none of the columns: every index is the default
BareHeaders == <<"Timestamp">>

\* a sheet whose date column sits in column B
MovedHeaders ==
    MkRow(32, 1 :> "Order Date" @@ 3 :> "Name" @@ 7 :> "Status Payment"
              @@ 8 :> "Status (Delivery)" @@ 27 :> "Price")

HeaderSet == {StdHeaders, BareHeaders, MovedHeaders}

RowA == MkRow(28, 2 :> "August 01, 2025" @@ 3 :> "A" @@ 7 :> "Paid" @@ 8 :> "Delivered"
                  @@ 27 :> "100")

RowB == MkRow(28, 2 :> "8/1/2025" @@ 3 :> "B" @@ 7 :> "Unpaid" @@ 27 :> "₱50")

\* eleven cells: too short to hold the summary column
RowShort == MkRow(11, 2 :> "08/01/2025" @@ 3 :> "C" @@ 7 :> "Paid" @@ 8 :> "Delivered")

\* date, name and summary blank, the other cells filled
RowBlank == MkRow(28, 2 :> "  " @@ 11 :> " " @@ 7 :> "Paid" @@ 14 :> "1" @@ 27 :> "70")

\* an order known by its summary only
RowSummary == MkRow(28, 11 :> "1 tub bbq" @@ 13 :> "2" @@ 21 :> " 3 " @@ 27 :> "30")

RowOtherDay == MkRow(28, 2 :> " 07/31/2025 " @@ 3 :> "D E" @@ 7 :> "Paid" @@ 8 :> " Delivered"
                         @@ 16 :> "1.5" @@ 19 :> "4" @@ 27 :> "PHP 1,234.50 extra 9")

RowNoted == MkRow(28, 2 :> "2025-08-01 pm" @@ 3 :> "G H" @@ 7 :> "Not Paid yet" @@ 13 :> "5"
                      @@ 14 :> "²" @@ 15 :> "6" @@ 19 :> "7" @@ 27 :> "1.2.3")

\* a paid order without a date
RowStanding == MkRow(28, 3 :> "F" @@ 7 :> "Paid" @@ 8 :> "Delivered" @@ 13 :> "1" @@ 27 :> "40")

\* an order whose name cell holds a space
RowNameless == MkRow(28, 2 :> "08/01/2025" @@ 3 :> " " @@ 7 :> "Paid" @@ 8 :> "Delivered"
                         @@ 27 :> "10")

RowPool == {RowA, RowB, RowShort, RowBlank, RowSummary, RowOtherDay, RowNoted, RowStanding,
            RowNameless}

\* the values of the two client fields
NoClient == "None"

SimpleClient == "SimpleGoogleSheetsClient"

LocalClient == "GoogleSheetsClient"

AnthropicClient == "Anthropic"

\* the users of the chat: the owner of the shop
Users == {"u1"}

\* the bot of the Railway deployment with both services up, nobody being asked
\* for a date
RailwayBot == [sheets_client |-> SimpleClient, anthropic_client |-> AnthropicClient,
               awaiting_date_input |-> [u \in Users |-> FALSE]]

\* fetch: what values().get().execute() does; title_rows: the rows of the sheet
\* above the header row; api: what messages.create() does
RailwayEnv == [fetch |-> "ok", title_rows |-> 0, api |-> "ok", REPORT_CHAT_ID |-> ""]

NoChat == [pressed |-> [u \in Users |-> 0], seen |-> [u \in Users |-> 0]]

\* the users whose updates reach the bot: those it keeps a flag for
Senders == DOMAIN bot.awaiting_date_input

TitleRow == <<"PREETOS ORDERS">>

\* result.get('values', []) of the ORDER sheet
SheetValues ==
    [i \in 1..env.title_rows |-> TitleRow]
        \o (IF headers = <<>> THEN <<>> ELSE <<headers>>) \o rows

EmptySheet == [kind |-> "dict", headers |-> <<>>, data |-> <<>>]

\* read_sheet of the wrapper built in __init__: the first row is the header
\* row, and every exception ends in the empty result
SimpleGoogleSheetsClient_read_sheet(values, fetch) ==
    IF fetch # "ok" \/ values = <<>> THEN EmptySheet
    ELSE [kind |-> "dict", headers |-> values[1], data |-> Tail(values)]

\* read_sheet of google_sheets_client.py: the fourth row is the header row; a
\* sheet of one to three rows comes back as the raw list of rows; an HttpError
\* ends in the empty result and any other exception leaves the method
GoogleSheetsClient_read_sheet(values, fetch) ==
    IF fetch = "HttpError" THEN EmptySheet
    ELSE IF fetch # "ok" THEN [kind |-> "raise", headers |-> <<>>, data |-> <<>>]
    ELSE IF values = <<>> THEN EmptySheet
    ELSE IF Len(values) > 3
    THEN [kind |-> "dict", headers |-> values[4], data |-> SubSeq(values, 5, Len(values))]
    ELSE [kind |-> "list", headers |-> <<>>, data |-> <<>>]

\* self.sheets_client.read_sheet(sheet_name='ORDER', range_name='A:AF')
read_sheet ==
    IF bot.sheets_client = LocalClient
    THEN GoogleSheetsClient_read_sheet(SheetValues, env.fetch)
    ELSE SimpleGoogleSheetsClient_read_sheet(SheetValues, env.fetch)

\* a variant of the handlers' call that empties the sheet
ClientCallClear == "clear_sheet"

\* the method of the sheets client that the handlers call
ClientCall == "read_sheet"

\* The sheet after a call of a method of the client: values().get() leaves it
\* as it is, values().clear() empties it, values().append() adds a row below
\* and values().update() overwrites the cells from A1 on.
SheetAfter(method) ==
    CASE method = "clear_sheet" -> [headers |-> <<>>, rows |-> <<>>]
      [] method = "append_sheet" -> [headers |-> headers, rows |-> Append(rows, <<"">>)]
      [] method = "write_sheet" -> [headers |-> <<"">>, rows |-> rows]
      [] OTHER -> [headers |-> headers, rows |-> rows]

\* the sheet after a handler that has a sheets client
SheetServed ==
    /\ headers' = IF bot.sheets_client = NoClient THEN headers
                  ELSE SheetAfter(ClientCall).headers
    /\ rows' = IF bot.sheets_client = NoClient THEN rows ELSE SheetAfter(ClientCall).rows

\* data.get('headers', []) and data.get('data', [])
SheetHeaders == read_sheet.headers

SheetData == read_sheet.data

\* parsed_dates['dates'] of the "Today" and "Last 3 Days" buttons
ButtonDates(today) == {<<today>>, <<today - 1, today - 2, today - 3>>}

\* parsed_dates['dates'] of a typed date request, future dates filtered out
TypedDates == {<<FirstDay>>, <<FirstDay - 1, FirstDay>>}

RequestedDates == ButtonDates(now) \cup TypedDates

\* the result of check_data_availability before any request
NoAvailability == [available_dates |-> <<>>, future_dates |-> <<>>, total_requested |-> 0,
                   available_count |-> 0, future_count |-> 0]

NoReply == [op |-> "none", outcome |-> "none", dates |-> <<>>, targets |-> <<>>,
            metrics |-> NoMetrics, history |-> NoHistory, target_info |-> NoTargetInfo,
            performance_data |-> NoPerformance, performance_text |-> <<>>,
            ai_insights |-> "none", chat_id |-> "", requested |-> <<>>,
            availability |-> NoAvailability]

\* this week's dates, Sunday to Saturday
WeekDays(today) == DateRange(today - ((Weekday(today) + 1) % 7), 7)

\* not data.get('headers') or not data.get('data')
NoOrderData == SheetHeaders = <<>> \/ SheetData = <<>>

\* format_numbered_names: `name.split()[0]` raises for a name without a word
FormatNamesRaises(names) == \E k \in 1..Len(names) : Strip(names[k]) = ""

\* "Services not available", "Google Sheets connection not available"
Refused(op) == [NoReply EXCEPT !.op = op, !.outcome = "unavailable"]

\* the text after the figures: the answer of messages.create(), or "AI analysis
\* unavailable: ..." when the call raises (a missing client raises as well)
Insights ==
    IF bot.anthropic_client = NoClient \/ env.api # "ok" THEN "unavailable" ELSE "insights"

\* the report of a handler whose scan of the rows gave m
Report(op, dates, targets, m) ==
    [NoReply EXCEPT !.op = op, !.outcome = "report", !.dates = dates, !.targets = targets,
                    !.metrics = m]

\* the daily report adds the historical metrics of today's paid revenue
DailyReport(report) ==
    [report EXCEPT !.history = HistoricalMetrics(report.metrics.paid_revenue,
                                                 SheetHeaders, SheetData, now)]

\* the custom analyses add the comparison lines and the monthly target
ComparedReport(report, performance_data) ==
    [report EXCEPT !.target_info = get_monthly_target_info(SheetHeaders, SheetData, now),
                   !.performance_data = performance_data,
                   !.performance_text = format_contextual_performance(performance_data)]

\* The reply of a handler whose scan of the rows gave m.  The daily and the
\* weekly report format the paid, unpaid and undelivered names, the custom
\* analyses the undelivered names only; an exception ends in the handler's
\* `except Exception` and the reply is the error text, and so does a result
\* of read_sheet that is no dict.
Aggregated(op, dates, m, report) ==
    IF read_sheet.kind # "dict"
    THEN [NoReply EXCEPT !.op = op, !.outcome = "error", !.dates = dates]
    ELSE IF NoOrderData
    THEN [NoReply EXCEPT !.op = op, !.outcome = "no_data", !.dates = dates]
    ELSE IF FormatNamesRaises(IF op \in {"sales_today", "sales_this_week"}
                              THEN m.paid_customers \o m.unpaid_customers \o m.undelivered_orders
                              ELSE m.undelivered_orders)
    THEN [NoReply EXCEPT !.op = op, !.outcome = "error", !.dates = dates]
    ELSE [report EXCEPT !.ai_insights = Insights]

\* the body the two custom analyses share
CustomAnalysis(op, dates, m) ==
    IF bot.sheets_client = NoClient THEN Refused(op)
    ELSE Aggregated(op, dates, m,
               ComparedReport(Report(op, dates, FormatsOfDates(dates), m),
                              get_contextual_performance(dates, m.paid_revenue,
                                                         SheetHeaders, SheetData, now)))

Init == /\ headers \in HeaderSet
        /\ rows = <<>>
        /\ now = FirstDay
        /\ reply = NoReply
        /\ bot = RailwayBot
        /\ env = RailwayEnv
        /\ tasks = <<>>
        /\ chat = NoChat

\* somebody adds an order to the sheet
AppendRow == /\ Len(rows) < MaxRows
             /\ \E r \in RowPool : rows' = Append(rows, r)
             /\ reply' = NoReply
             /\ UNCHANGED <<headers, now, bot, env, tasks, chat>>

\* midnight in Manila
Tick == /\ now < FirstDay + MaxTicks
        /\ now' = now + 1
        /\ reply' = NoReply
        /\ UNCHANGED <<headers, rows, bot, env, tasks, chat>>

\* the reply has gone out; the bot waits for the next request
ReplySent == /\ reply # NoReply
             /\ reply' = NoReply
             /\ UNCHANGED <<headers, rows, now, bot, env, tasks, chat>>

sales_today_command ==
    /\ reply = NoReply
    /\ reply' =
          IF bot.sheets_client = NoClient \/ bot.anthropic_client = NoClient
          THEN Refused("sales_today")
          ELSE Aggregated("sales_today", <<now>>,
                   ScanToday(NoMetrics, 1, SheetHeaders, SheetData, get_date_formats(now)),
                   DailyReport(Report("sales_today", <<now>>, get_date_formats(now),
                       ScanToday(NoMetrics, 1, SheetHeaders, SheetData,
                                 get_date_formats(now)))))
    /\ SheetServed
    /\ UNCHANGED <<now, bot, env, tasks, chat>>

\* the weekly report of the class; run() registers no command for it
sales_this_week_command ==
    /\ reply = NoReply
    /\ reply' =
          IF bot.sheets_client = NoClient \/ bot.anthropic_client = NoClient
          THEN Refused("sales_this_week")
          ELSE Aggregated("sales_this_week", WeekDays(now),
                   ScanToday(NoMetrics, 1, SheetHeaders, SheetData,
                             FormatsOfDates(WeekDays(now))),
                   Report("sales_this_week", WeekDays(now), FormatsOfDates(WeekDays(now)),
                       ScanToday(NoMetrics, 1, SheetHeaders, SheetData,
                                 FormatsOfDates(WeekDays(now)))))
    /\ SheetServed
    /\ UNCHANGED <<now, bot, env, tasks, chat>>

analyze_sales_for_dates ==
    /\ reply = NoReply
    /\ \E dates \in TypedDates :
          reply' = CustomAnalysis("analyze_sales_for_dates", dates,
                       ScanTargets(NoMetrics, 1, SheetHeaders, SheetData,
                                   FormatsOfDates(dates)))
    /\ SheetServed
    /\ UNCHANGED <<now, bot, env, tasks, chat>>

analyze_sales_for_dates_with_query ==
    /\ reply = NoReply
    /\ \E dates \in ButtonDates(now) :
          reply' = CustomAnalysis("analyze_sales_for_dates_with_query", dates,
                       ScanTargets(NoMetrics, 1, SheetHeaders, SheetData,
                                   FormatsOfDates(dates)))
    /\ SheetServed
    /\ UNCHANGED <<now, bot, env, tasks, chat>>

-----------------------------------------------------------------------------
(* The date dialogue: the buttons of /custom and the text messages.        *)

MaxPresses == 2

MaxTasks == 2

Buttons == {"date_today", "date_yesterday", "date_last3days", "date_thisweek",
            "date_lastweek", "date_last2weeks", "date_thismonth", "date_custom", "date_other"}

\* (now.weekday() + 1) % 7
DaysSinceSunday(today) == (Weekday(today) + 1) % 7

\* parsed_dates['dates'] of a date button
DatesOfButton(button_data, today) ==
    CASE button_data = "date_today" -> <<today>>
      [] button_data = "date_yesterday" -> <<today - 1>>
      [] button_data = "date_last3days" -> [i \in 1..3 |-> today - i]
      [] button_data = "date_thisweek" ->
            DateRange(today - DaysSinceSunday(today), DaysSinceSunday(today) + 1)
      [] button_data = "date_lastweek" -> DateRange(today - DaysSinceSunday(today) - 7, 7)
      [] button_data = "date_last2weeks" -> DateRange(today - 14, 14)
      [] button_data = "date_thismonth" ->
            DateRange(FirstOfMonth(today), today - FirstOfMonth(today) + 1)
      [] OTHER -> <<>>

\* an entry of parsed_dates['dates'] that strptime('%Y-%m-%d') rejects
Unparsable == -1

\* a variant of the availability check that takes every requested date
AvailableDatesAll(dates, today) == dates

\* available_dates of check_data_availability: the dates not after today, in
\* their order; an entry that does not parse is logged and left out
AvailableDates(dates, today) == SelectSeq(dates, LAMBDA d : d # Unparsable /\ d <= today)

\* future_dates: the dates after today
FutureDates(dates, today) == SelectSeq(dates, LAMBDA d : d # Unparsable /\ ~(d <= today))

check_data_availability(dates, today) ==
    [available_dates |-> AvailableDates(dates, today),
     future_dates |-> FutureDates(dates, today),
     total_requested |-> Len(dates),
     available_count |-> Len(AvailableDates(dates, today)),
     future_count |-> Len(FutureDates(dates, today))]

\* the lengths of the date lists the date parser is asked for
TypedLengths == {1, 2, 13, 14, 15, 32, 33}

\* parsed_dates['dates'] of parse_date_with_llm: <<>> stands for None; the
\* ranges end today or tomorrow, and one answer holds a string that is no date
ParsedDates(today) ==
    IF bot.anthropic_client = NoClient \/ env.api # "ok" THEN {<<>>}
    ELSE {<<>>, <<Unparsable, today, today + 1>>}
             \cup {DateRange(last - n + 1, n) : n \in TypedLengths, last \in {today, today + 1}}

\* the reply of the analysis of the available dates of a request
DateAnalysis(op, dates) ==
    IF dates = <<>>
    THEN [NoReply EXCEPT !.op = op, !.outcome = "no_history"]
    ELSE CustomAnalysis(op, dates,
             ScanTargets(NoMetrics, 1, SheetHeaders, SheetData, FormatsOfDates(dates)))

\* The availability check of a date request and what follows it: the analysis
\* of the available dates, or "no historical data available" without them.
DateRequest(op, requested) ==
    [DateAnalysis(op, AvailableDates(requested, now)) EXCEPT
        !.requested = requested,
        !.availability = check_data_availability(requested, now)]

\* a variant of the flag update of handle_message that leaves the flag set
KeepFlag(flags, user_id) == flags

\* a variant of the flag update that clears the flag of every user
ClearEveryFlag(flags, user_id) == [u \in DOMAIN flags |-> FALSE]

\* self.awaiting_date_input[user_id] = False
ClearFlag(flags, user_id) == [flags EXCEPT ![user_id] = FALSE]

\* /custom: the prompt with the eight date buttons
sales_customdate_command ==
    /\ reply = NoReply
    /\ reply' = [NoReply EXCEPT !.op = "sales_customdate", !.outcome = "date_buttons"]
    /\ UNCHANGED <<headers, rows, now, bot, env, tasks, chat>>

\* A press of a button under the /custom prompt.  "Custom Date" sets the flag
\* of the user and asks for a text; the other buttons run the analysis.
handle_date_button ==
    /\ reply = NoReply
    /\ \E user_id \in Senders, button_data \in Buttons :
          IF button_data = "date_custom"
          THEN /\ chat.pressed[user_id] < MaxPresses
               /\ bot' = [bot EXCEPT !.awaiting_date_input[user_id] = TRUE]
               /\ chat' = [chat EXCEPT !.pressed[user_id] = @ + 1]
               /\ reply' = [NoReply EXCEPT !.op = "handle_date_button", !.outcome = "ask_date"]
          ELSE /\ reply' = IF button_data = "date_other"
                           THEN [NoReply EXCEPT !.op = "handle_date_button",
                                                !.outcome = "unknown_selection"]
                           ELSE DateRequest("analyze_sales_for_dates_with_query",
                                            DatesOfButton(button_data, now))
               /\ UNCHANGED <<bot, chat>>
    /\ SheetServed
    /\ UNCHANGED <<now, env, tasks>>

\* A text message, up to its first await: the flag of the user is read and, if
\* set, cleared; then the coroutine waits for its "Understanding your date
\* request..." to go out.  Without the flag the help text is the reply.
handle_message ==
    /\ reply = NoReply
    /\ \E user_id \in Senders :
          IF bot.awaiting_date_input[user_id]
          THEN /\ Len(tasks) < MaxTasks
               /\ bot' = [bot EXCEPT !.awaiting_date_input = ClearFlag(@, user_id)]
               /\ tasks' = Append(tasks, user_id)
               /\ chat' = [chat EXCEPT !.seen[user_id] = @ + 1]
               /\ reply' = reply
          ELSE /\ reply' = [NoReply EXCEPT !.op = "handle_message", !.outcome = "help"]
               /\ UNCHANGED <<bot, tasks, chat>>
    /\ UNCHANGED <<headers, rows, now, env>>

\* one of the suspended coroutines goes on: the date parser, the availability
\* check and the analysis
handle_message_resume ==
    /\ reply = NoReply
    /\ \E i \in 1..Len(tasks) :
          /\ tasks' = SubSeq(tasks, 1, i - 1) \o SubSeq(tasks, i + 1, Len(tasks))
          /\ \E dates \in ParsedDates(now) :
                reply' = IF dates = <<>>
                         THEN [NoReply EXCEPT !.op = "handle_message",
                                              !.outcome = "not_understood"]
                         ELSE DateRequest("analyze_sales_for_dates", dates)
    /\ SheetServed
    /\ UNCHANGED <<now, bot, env, chat>>

\* The ledgers the dialogue is tried on: paid orders of the days and weeks
\* before 2025-08-01.
RowJul30 == MkRow(28, 2 :> "07/30/2025" @@ 3 :> "J K" @@ 7 :> "Paid" @@ 8 :> "Delivered"
                      @@ 27 :> "20")

RowJul27 == MkRow(28, 2 :> "7/27/2025" @@ 3 :> "L M" @@ 7 :> "Paid" @@ 8 :> "Delivered"
                      @@ 27 :> "30")

RowJul25 == MkRow(28, 2 :> "July 25, 2025" @@ 3 :> "N O" @@ 7 :> "Paid" @@ 8 :> "Delivered"
                      @@ 27 :> "40")

DatedRows == {RowA, RowJul30, RowJul27, RowJul25}

InitChat == /\ headers = StdHeaders
            /\ rows = <<>>
            /\ now = FirstDay
            /\ reply = NoReply
            /\ bot = RailwayBot
            /\ env = RailwayEnv
            /\ tasks = <<>>
            /\ chat = NoChat

\* somebody adds a paid order of the last days to the sheet
AppendDatedRow == /\ Len(rows) < MaxRows
                  /\ reply = NoReply
                  /\ tasks = <<>>
                  /\ chat = NoChat
                  /\ \E r \in DatedRows : rows' = Append(rows, r)
                  /\ UNCHANGED <<headers, now, reply, bot, env, tasks, chat>>

NextChat == \/ AppendDatedRow
            \/ Tick
            \/ ReplySent
            \/ sales_today_command
            \/ sales_customdate_command
            \/ handle_date_button
            \/ handle_message
            \/ handle_message_resume

SpecChat == InitChat /\ [][NextChat]_vars

\* The ledgers and days the month totals are tried on: paid orders of several
\* months in the four date formats, read in March and December 2025 and on
\* New Year's Day 2026.
RowJan15 == MkRow(28, 2 :> "1/15/2025" @@ 3 :> "P Q" @@ 7 :> "Paid" @@ 8 :> "Delivered"
                      @@ 27 :> "10")

RowNov15 == MkRow(28, 2 :> "11/15/2025" @@ 3 :> "R S" @@ 7 :> "Paid" @@ 8 :> "Delivered"
                      @@ 27 :> "20")

RowNov05 == MkRow(28, 2 :> "11/05/2025" @@ 3 :> "T U" @@ 7 :> "Paid" @@ 8 :> "Delivered"
                      @@ 27 :> "25")

RowDec31 == MkRow(28, 2 :> "December 31, 2025" @@ 3 :> "V W" @@ 7 :> "Paid"
                      @@ 8 :> "Delivered" @@ 27 :> "30")

RowFeb28 == MkRow(28, 2 :> "2025-02-28" @@ 3 :> "X Y" @@ 7 :> "Paid" @@ 8 :> "Delivered"
                      @@ 27 :> "40")

MonthRows == {RowJan15, RowNov15, RowNov05, RowDec31, RowFeb28}

ReportDays == {DaysFromCivil(2025, 3, 31), DaysFromCivil(2025, 12, 10),
               DaysFromCivil(2026, 1, 1)}

InitMonth == /\ headers = StdHeaders
             /\ rows = <<>>
             /\ now \in ReportDays
             /\ reply = NoReply
             /\ bot = RailwayBot
             /\ env = RailwayEnv
             /\ tasks = <<>>
             /\ chat = NoChat

\* somebody adds one of these orders to the sheet
AppendMonthRow == /\ Len(rows) < MaxRows
                  /\ reply = NoReply
                  /\ \E r \in MonthRows : rows' = Append(rows, r)
                  /\ UNCHANGED <<headers, now, reply, bot, env, tasks, chat>>

NextMonth == \/ AppendMonthRow
             \/ ReplySent
             \/ sales_today_command

SpecMonth == InitMonth /\ [][NextMonth]_vars

-----------------------------------------------------------------------------
(* The scheduled report, as its tests describe it.                         *)

\* os.environ without REPORT_CHAT_ID
Unset == "unset"

\* a variant of the test of the chat id that takes every value as a chat
ReportChatAlways(chat_id) == TRUE

\* the report has a chat to go to
ReportChatConfigured(chat_id) == chat_id \notin {Unset, ""}

\* what the scheduled run sends, given the reply of the analysis of today: the
\* report under "Automated Sales Report", the warning "Could not generate
\* scheduled sales report" when there is none, and after an exception the
\* warning or nothing
ScheduledMessages(analysis) ==
    IF analysis.outcome = "report" THEN {"scheduled_report"}
    ELSE IF analysis.outcome = "error" THEN {"scheduled_warning", "not_sent"}
    ELSE {"scheduled_warning"}

\* The run the scheduler triggers: without a chat id nothing is sent;
\* otherwise today's analysis goes to the chat.
send_scheduled_sales_report ==
    /\ reply = NoReply
    /\ IF ~ReportChatConfigured(env.REPORT_CHAT_ID)
       THEN reply' = [NoReply EXCEPT !.op = "send_scheduled_sales_report",
                                     !.outcome = "not_sent"]
       ELSE \E message \in ScheduledMessages(DateAnalysis("analyze_sales_for_dates", <<now>>)) :
               reply' = [DateAnalysis("analyze_sales_for_dates", <<now>>) EXCEPT
                            !.op = "send_scheduled_sales_report",
                            !.outcome = message,
                            !.chat_id = IF message = "not_sent" THEN ""
                                        ELSE env.REPORT_CHAT_ID]
    /\ SheetServed
    /\ UNCHANGED <<now, bot, env, tasks, chat>>

InitCron == /\ headers = StdHeaders
            /\ rows = <<>>
            /\ now = FirstDay
            /\ reply = NoReply
            /\ bot = RailwayBot
            /\ env \in [fetch : {"ok"}, title_rows : {0}, api : {"ok"},
                        REPORT_CHAT_ID : {Unset, "", "123456789"}]
            /\ tasks = <<>>
            /\ chat = NoChat

NextCron == \/ AppendDatedRow
            \/ Tick
            \/ ReplySent
            \/ send_scheduled_sales_report

SpecCron == InitCron /\ [][NextCron]_vars

\* The deployments the services are tried on: either sheets client or none,
\* with or without the Anthropic client, over a sheet whose header row is the
\* first row or the fourth.
Deployments == [sheets_client : {SimpleClient, LocalClient, NoClient},
                anthropic_client : {AnthropicClient, NoClient},
                awaiting_date_input : {[u \in Users |-> FALSE]}]

InitService == /\ headers = <<>>
               /\ rows = <<>>
               /\ now = FirstDay
               /\ reply = NoReply
               /\ bot \in Deployments
               /\ env \in [fetch : {"ok"}, title_rows : {0, 3}, api : {"ok"},
                           REPORT_CHAT_ID : {""}]
               /\ tasks = <<>>
               /\ chat = NoChat

\* somebody types the header row into the empty sheet
WriteHeaders == /\ reply = NoReply
                /\ headers = <<>>
                /\ headers' = StdHeaders
                /\ UNCHANGED <<rows, now, reply, bot, env, tasks, chat>>

\* somebody enters a paid order of 2025-08-01 under the header row
AppendPaidRow == /\ reply = NoReply
                 /\ headers # <<>>
                 /\ Len(rows) < MaxRows
                 /\ rows' = Append(rows, RowA)
                 /\ UNCHANGED <<headers, now, reply, bot, env, tasks, chat>>

\* the Sheets API starts to answer with an HttpError or to fail otherwise
\* (the network, the credentials), or works again
SourceChanges == /\ reply = NoReply
                 /\ \E f \in {"ok", "HttpError", "Exception"} \ {env.fetch} :
                       env' = [env EXCEPT !.fetch = f]
                 /\ UNCHANGED <<headers, rows, now, reply, bot, tasks, chat>>

\* the Anthropic API starts to fail, or works again
ApiChanges == /\ reply = NoReply
              /\ env' = [env EXCEPT !.api = IF @ = "ok" THEN "failing" ELSE "ok"]
              /\ UNCHANGED <<headers, rows, now, reply, bot, tasks, chat>>

NextService == \/ WriteHeaders
               \/ AppendPaidRow
               \/ SourceChanges
               \/ ApiChanges
               \/ ReplySent
               \/ sales_today_command
               \/ handle_date_button

SpecService == InitService /\ [][NextService]_vars

\* The price cells the parser is tried on: a ledger of one paid order dated
\* 2025-08-01 whose price cell is typed in character by character.
MaxPriceLen == 3

PriceAlphabet == {"1", "5", "0", ".", ",", "₱", " ", "x"}

SeedPrices == {"", "₱1,234.50 extra", "PHP 99 or 100", "1.2.3 4"}

PricedRow(price) == MkRow(28, 2 :> "8/1/2025" @@ 3 :> "A" @@ 7 :> "Paid" @@ 8 :> "Delivered"
                              @@ 27 :> price)

InitPrice == /\ headers = StdHeaders
             /\ rows \in {<<PricedRow(price)>> : price \in SeedPrices}
             /\ now = FirstDay
             /\ reply = NoReply
             /\ bot = RailwayBot
             /\ env = RailwayEnv
             /\ tasks = <<>>
             /\ chat = NoChat

\* one more character in the price cell
EditPrice == /\ Len(Cell(rows[1], 27)) < MaxPriceLen
             /\ \E c \in PriceAlphabet : rows' = <<PricedRow(Cell(rows[1], 27) \o c)>>
             /\ reply' = NoReply
             /\ UNCHANGED <<headers, now, bot, env, tasks, chat>>

NextPrice == \/ EditPrice
             \/ ReplySent
             \/ sales_today_command
             \/ analyze_sales_for_dates

SpecPrice == InitPrice /\ [][NextPrice]_vars

\* The ledgers the date matching is tried on: paid orders dated on a few days
\* of January and November 2025, each in one of the four formats of
\* get_date_formats, read on one of these days.
MatchDays == {DaysFromCivil(2025, 1, 1), DaysFromCivil(2025, 1, 11),
              DaysFromCivil(2025, 11, 1), DaysFromCivil(2025, 11, 11)}

DatedOrder(date_obj, k) ==
    MkRow(28, 2 :> get_date_formats(date_obj)[k] @@ 3 :> "A" @@ 7 :> "Paid"
              @@ 8 :> "Delivered" @@ 27 :> "10")

InitMatch == /\ headers = StdHeaders
             /\ rows = <<>>
             /\ now \in MatchDays
             /\ reply = NoReply
             /\ bot = RailwayBot
             /\ env = RailwayEnv
             /\ tasks = <<>>
             /\ chat = NoChat

\* somebody enters an order of one of these days, its date in one of the formats
AppendFormattedRow == /\ Len(rows) < MaxRows
                      /\ reply = NoReply
                      /\ \E d \in MatchDays, k \in 1..4 : rows' = Append(rows, DatedOrder(d, k))
                      /\ UNCHANGED <<headers, now, reply, bot, env, tasks, chat>>

NextMatch == \/ AppendFormattedRow
             \/ ReplySent
             \/ sales_today_command
             \/ analyze_sales_for_dates_with_query

SpecMatch == InitMatch /\ [][NextMatch]_vars

\* The sheets the column lookup is tried on: the three header rows, and orders
\* that keep their date in column C or, as the moved header row says, in
\* column B.
RowColumnB == MkRow(28, 1 :> "8/1/2025" @@ 7 :> "Paid" @@ 8 :> "Delivered" @@ 27 :> "60")

ColumnRows == {RowA, RowB, RowSummary, RowColumnB}

InitColumns == /\ headers \in HeaderSet
               /\ rows = <<>>
               /\ now = FirstDay
               /\ reply = NoReply
               /\ bot = RailwayBot
               /\ env = RailwayEnv
               /\ tasks = <<>>
               /\ chat = NoChat

\* somebody adds one of these orders to the sheet
AppendColumnRow == /\ Len(rows) < MaxRows
                   /\ reply = NoReply
                   /\ \E r \in ColumnRows : rows' = Append(rows, r)
                   /\ UNCHANGED <<headers, now, reply, bot, env, tasks, chat>>

NextColumns == \/ AppendColumnRow
               \/ ReplySent
               \/ sales_today_command
               \/ analyze_sales_for_dates

SpecColumns == InitColumns /\ [][NextColumns]_vars

\* The chats the flags are tried on: two users write to the bot of an empty
\* ORDER sheet.
TwoUsers == {"u1", "u2"}

InitFlags == /\ headers = StdHeaders
             /\ rows = <<>>
             /\ now = FirstDay
             /\ reply = NoReply
             /\ bot = [RailwayBot EXCEPT !.awaiting_date_input = [u \in TwoUsers |-> FALSE]]
             /\ env = RailwayEnv
             /\ tasks = <<>>
             /\ chat = [pressed |-> [u \in TwoUsers |-> 0], seen |-> [u \in TwoUsers |-> 0]]

NextFlags == \/ ReplySent
             \/ sales_today_command
             \/ sales_customdate_command
             \/ handle_date_button
             \/ handle_message
             \/ handle_message_resume

SpecFlags == InitFlags /\ [][NextFlags]_vars

Next == \/ AppendRow
        \/ Tick
        \/ ReplySent
        \/ sales_today_command
        \/ sales_this_week_command
        \/ analyze_sales_for_dates
        \/ analyze_sales_for_dates_with_query

Spec == Init /\ [][Next]_vars

-----------------------------------------------------------------------------
(* Reference notions the claims are stated with.                           *)

Reported == reply.outcome = "report"

Aggregations == {"sales_today", "sales_this_week", "analyze_sales_for_dates",
                 "analyze_sales_for_dates_with_query"}

\* s without its leading and trailing whitespace
Trimmed(s) ==
    LET ink == {i \in 1..Len(s) : Char(s, i) \notin Whitespace}
    IN  IF ink = {} THEN ""
        ELSE SubSeq(s, CHOOSE i \in ink : \A j \in ink : i <= j,
                       CHOOSE i \in ink : \A j \in ink : j <= i)

\* a occurs in b as a contiguous piece
Substring(a, b) ==
    \E i \in 0..(Len(b) - Len(a)) : b = SubSeq(b, 1, i) \o a \o SubSeq(b, i + Len(a) + 1, Len(b))

\* the matching contract between a ledger date cell and a collection of target strings
MatchesContract(d, T) ==
    \E k \in 1..Len(T) :
        Trimmed(d) = T[k] \/ Substring(T[k], Trimmed(d)) \/ Substring(Trimmed(d), T[k])

\* a cell that is still non-empty after trimming
Filled(row, col) == \E i \in 1..Len(row[col + 1]) : Char(row[col + 1], i) \notin Whitespace

\* the candidate orders: at least 12 cells, and a date, name or summary
CandidateOrder(row) ==
    Len(row) >= 12 /\ (Filled(row, 2) \/ Filled(row, 3) \/ Filled(row, 11))

\* the date cell the scans read: the header-resolved column, empty when the row is short
DateCell(hdr, row) ==
    IF Columns(hdr).date_col < Len(row) THEN Cell(row, Columns(hdr).date_col) ELSE ""

SeqToSet(q) == {q[i] : i \in 1..Len(q)}

\* the multiset of the elements of a sequence
BagOf(q) == [x \in SeqToSet(q) |-> Cardinality({i \in 1..Len(q) : q[i] = x})]

RECURSIVE SumPrices(_, _, _)
SumPrices(idx, hdr, rws) ==
    IF idx = {} THEN Zero
    ELSE LET i == CHOOSE x \in idx : TRUE
         IN  RAdd(OrderPrice(rws[i], Columns(hdr).price_col), SumPrices(idx \ {i}, hdr, rws))

\* the same sum over a list of row numbers, each occurrence counted
RECURSIVE SumPricesOf(_, _, _)
SumPricesOf(q, hdr, rws) ==
    IF q = <<>> THEN Zero
    ELSE RAdd(OrderPrice(rws[Head(q)], Columns(hdr).price_col), SumPricesOf(Tail(q), hdr, rws))

\* a row is classified Paid when its payment cell holds the text "Paid"
PaidRow(hdr, row) ==
    LET col == Columns(hdr).payment_status_col
    IN  col < Len(row) /\ Substring("Paid", row[col + 1])

\* the rows of the ledger in another order
RowOrders(n) == {f \in [1..n -> 1..n] : \A a, b \in 1..n : a # b => f[a] # f[b]}

Permuted(rws, f) == [i \in 1..Len(rws) |-> rws[f[i]]]

\* the totals that must not depend on the order of the rows
Totals(m) ==
    [total_revenue |-> m.total_revenue, paid_revenue |-> m.paid_revenue,
     unpaid_revenue |-> m.unpaid_revenue, pouches |-> m.pouches, tubs |-> m.tubs,
     paid_pouches |-> m.paid_pouches, paid_tubs |-> m.paid_tubs,
     customers |-> m.customers, paid_customers |-> BagOf(m.paid_customers),
     unpaid_customers |-> BagOf(m.unpaid_customers),
     undelivered_orders |-> BagOf(m.undelivered_orders)]

\* the aggregation the reply reports, run again over the rows rws
Rerun(rws) ==
    IF reply.op \in {"sales_today", "sales_this_week"}
    THEN ScanToday(NoMetrics, 1, headers, rws, reply.targets)
    ELSE ScanTargets(NoMetrics, 1, headers, rws, reply.targets)

\* candidate row i matches calendar day d
RowOfDay(i, d) ==
    /\ CandidateOrder(rows[i])
    /\ MatchesContract(DateCell(headers, rows[i]), get_date_formats(d))

\* the summed price of the paid rows, each times the number of days of D it matches
RECURSIVE PaidRevenueOfDays(_, _)
PaidRevenueOfDays(i, D) ==
    IF i > Len(rows) THEN Zero
    ELSE LET times == Cardinality({d \in D : RowOfDay(i, d)})
             price == IF PaidRow(headers, rows[i])
                      THEN OrderPrice(rows[i], Columns(headers).price_col) ELSE Zero
         IN  RAdd(RMul(price, FromInt(times)), PaidRevenueOfDays(i + 1, D))

\* the trailing average of the last n days, today included
TrailingAverage(n) ==
    LET window == (now - n + 1)..now
        days_with_orders == {d \in window : \E i \in 1..Len(rows) : RowOfDay(i, d)}
    IN  IF days_with_orders = {} THEN Zero
        ELSE RDiv(PaidRevenueOfDays(1, window), FromInt(Cardinality(days_with_orders)))

\* the number of leading days d0, d1, ... classified like current against ref
LeadingDays(current, ref) ==
    LET same(k) == RGt(PaidRevenueOfDays(1, {now - k}), ref) = RGt(current, ref)
    IN  CHOOSE k \in 0..10 : /\ \A j \in 0..(k - 1) : same(j)
                             /\ k = 10 \/ ~same(k)

\* the streak the report shows agrees with the reference
StreakAgrees(streak, current, ref) ==
    /\ streak.count = LeadingDays(current, ref)
    /\ Substring("above", streak.type) = RGt(current, ref)
    /\ Substring("below", streak.type) = ~RGt(current, ref)

\* the paid revenue of the candidate rows dated on one of the days D
PaidRevenueOfMonth(D) ==
    LET dated == {i \in 1..Len(rows) : PaidRow(headers, rows[i]) /\ \E d \in D : RowOfDay(i, d)}
    IN  SumPrices(dated, headers, rows)

PreviousMonth == LET c == CivilFromDays(now)
                     first == IF c.month = 1 THEN DaysFromCivil(c.year - 1, 12, 1)
                              ELSE DaysFromCivil(c.year, c.month - 1, 1)
                 IN  first..(DaysFromCivil(c.year, c.month, 1) - 1)

MonthToDate == LET c == CivilFromDays(now) IN DaysFromCivil(c.year, c.month, 1)..now

MonthlyTarget == RDiv(RMul(PaidRevenueOfMonth(PreviousMonth), FromInt(110)), FromInt(100))

AchievementPercent == RDiv(RMul(PaidRevenueOfMonth(MonthToDate), FromInt(100)), MonthlyTarget)

CustomAnalyses == {"analyze_sales_for_dates", "analyze_sales_for_dates_with_query"}

\* the first run of characters of [0-9.,] in s, "" when there is none
FirstRun(s) ==
    LET in_class(i) == Char(s, i) \in {"0", "1", "2", "3", "4", "5", "6", "7", "8", "9", ".", ","}
        starts == {i \in 1..Len(s) : in_class(i)}
    IN  IF starts = {} THEN ""
        ELSE LET a == CHOOSE i \in starts : \A j \in starts : i <= j
                 ends == {j \in a..Len(s) : \A k \in a..j : in_class(k)}
             IN  SubSeq(s, a, CHOOSE j \in ends : \A k \in ends : k <= j)

\* the digits of t from position i on, read as one integer (dots and commas skipped)
RECURSIVE DigitsFrom(_, _)
DigitsFrom(t, i) ==
    IF i > Len(t) THEN 0
    ELSE LET later == Cardinality({j \in (i + 1)..Len(t) : Char(t, j) \notin {".", ","}})
         IN  (IF Char(t, i) \in {".", ","} THEN 0 ELSE DigitVal(Char(t, i)) * Pow10(later))
                 + DigitsFrom(t, i + 1)

\* the decimal value of the first run of s with its commas removed; 0 when
\* there is no run or the run is not a decimal number
DecimalOfFirstRun(s) ==
    LET t == FirstRun(s)
        dots == {i \in 1..Len(t) : Char(t, i) = "."}
        digits == {i \in 1..Len(t) : Char(t, i) \notin {".", ","}}
    IN  IF digits = {} \/ Cardinality(dots) > 1 THEN Zero
        ELSE LET decimals == Cardinality({i \in digits : \E p \in dots : p < i})
             IN  Rat(DigitsFrom(t, 1), Pow10(decimals))

-----------------------------------------------------------------------------
(* The claims.                                                             *)

ScenarioRows ==
    <<MkRow(28, 2 :> "August 01, 2025" @@ 3 :> "A" @@ 27 :> "100" @@ 7 :> "Paid"
                @@ 8 :> "Delivered"),
      MkRow(28, 2 :> "8/1/2025" @@ 3 :> "B" @@ 27 :> "₱50" @@ 7 :> "Unpaid")>>

ScenarioCase ==
    /\ Reported /\ reply.op \in Aggregations
    /\ reply.dates = <<DaysFromCivil(2025, 8, 1)>>
    /\ rows = ScenarioRows
    /\ headers \in {StdHeaders, BareHeaders}

\* C2: the two-row ledger of the scenario, aggregated for 2025-08-01 alone,
\* gives total 150, paid 100, unpaid 50, customers {A, B}, undelivered [B].
C2_Scenario ==
    ScenarioCase =>
        LET m == reply.metrics
        IN  /\ m.total_revenue = FromInt(150)
            /\ m.paid_revenue = FromInt(100)
            /\ RSub(m.total_revenue, m.paid_revenue) = FromInt(50)
            /\ reply.op = "sales_today" => m.unpaid_revenue = FromInt(50)
            /\ m.customers = {"A", "B"}
            /\ m.undelivered_orders = <<"B">>

C2_Witness == ScenarioCase /\ reply.op = "analyze_sales_for_dates"

\* C3: for every price cell the parser gives a value of 0 or more, equal to
\* the decimal value of the first run of [0-9.,] with its commas removed, and
\* 0 for an empty cell, a cell without a run and a first run that is no
\* decimal; '' gives 0 and '₱1,234.50 extra' gives 1234.50.  The value is the
\* one the fold and the baseline scans add up.
C3_PriceParser ==
    LET s == Cell(rows[1], 27)
        price == DecimalOfFirstRun(s)
    IN  /\ ParsePrice(s) = price
        /\ price.n >= 0 /\ price.d > 0
        /\ s = "" => ParsePrice(s) = Zero
        /\ s = "₱1,234.50 extra" => ParsePrice(s) = Rat(123450, 100)
        /\ reply.op = "sales_today" =>
              /\ Reported
              /\ reply.metrics.total_revenue = price
              /\ reply.metrics.paid_revenue = price
              /\ reply.history.seven_day_avg = price
        /\ reply.op = "analyze_sales_for_dates" =>
              /\ Reported
              /\ reply.metrics.total_revenue =
                    IF reply.metrics.filtered_orders = <<>> THEN Zero ELSE price
              /\ reply.target_info.this_month_total = price

C3_Witness ==
    /\ Reported /\ reply.op = "sales_today"
    /\ Cell(rows[1], 27) = "₱1,234.50 extra"
    /\ reply.metrics.total_revenue = Rat(2469, 2)
    /\ reply.history.seven_day_avg = Rat(2469, 2)

\* C4: a row is a candidate order iff it has at least 12 cells and its date,
\* name or summary cell is non-empty after trimming; the rows an aggregation
\* folds are candidates, a candidate whose date cell matches is folded, and
\* the other rows contribute to no metric.
C4_CandidateRows ==
    Reported /\ reply.op \in Aggregations =>
        LET folded == SeqToSet(reply.metrics.filtered_orders)
            candidates == {i \in 1..Len(rows) : CandidateOrder(rows[i])}
        IN  /\ folded \subseteq candidates
            /\ \A i \in candidates :
                  MatchesContract(DateCell(headers, rows[i]), reply.targets) => i \in folded
            /\ Totals(reply.metrics) = Totals(Rerun(SelectSeq(rows, CandidateOrder)))
            /\ reply.op = "sales_today" =>
                  reply.history = HistoricalMetrics(reply.metrics.paid_revenue, headers,
                                                    SelectSeq(rows, CandidateOrder), now)
            /\ reply.op \in {"analyze_sales_for_dates", "analyze_sales_for_dates_with_query"} =>
                  reply.target_info =
                      get_monthly_target_info(headers, SelectSeq(rows, CandidateOrder), now)

C4_Witness ==
    /\ Reported /\ reply.op = "sales_today"
    /\ rows = <<RowBlank, RowSummary>>
    /\ headers = StdHeaders
    /\ reply.metrics.filtered_orders = <<2>>

\* C5: a ledger date cell d matches a collection T of target strings iff some
\* t in T equals trim(d), is a substring of trim(d), or has trim(d) as a substring.
C5_MatchingContract ==
    /\ Reported /\ reply.op \in Aggregations =>
          SeqToSet(reply.metrics.filtered_orders) =
              {i \in 1..Len(rows) :
                  /\ IsValidOrder(rows[i])
                  /\ MatchesContract(DateCell(headers, rows[i]), reply.targets)}
    /\ reply = NoReply =>
        \A i \in 1..Len(rows) :
          \A T \in {get_date_formats(now), FormatsOfDates(WeekDays(now))}
                   \cup {FormatsOfDates(q) : q \in RequestedDates} :
              LET d == DateCell(headers, rows[i])
                  hit == MatchesContract(d, T)
              IN  /\ IsToday(Strip(d), T) = hit
                  /\ IsTargetDate(Strip(d), T) = hit
                  /\ IsTargetDay(Strip(d), T) = hit

C5_Witness ==
    /\ Reported /\ reply.op = "analyze_sales_for_dates"
    /\ rows = <<RowNoted, RowOtherDay>>
    /\ headers = StdHeaders
    /\ reply.dates = <<FirstDay>>
    /\ reply.metrics.filtered_orders = <<1>>

\* C6: within one aggregation call each ledger row is folded into the running
\* totals at most once, whatever number of target strings or dates it matches.
C6_FoldedAtMostOnce ==
    Reported /\ reply.op \in Aggregations =>
        LET m == reply.metrics
            folded == SeqToSet(m.filtered_orders)
        IN  /\ Len(m.filtered_orders) = Cardinality(folded)
            /\ m.total_revenue = SumPrices(folded, headers, rows)
            /\ Len(m.paid_customers) + Len(m.unpaid_customers) = Cardinality(folded)

C6_Witness ==
    /\ Reported /\ reply.op = "analyze_sales_for_dates"
    /\ \E i \in SeqToSet(reply.metrics.filtered_orders) :
          /\ OrderPrice(rows[i], Columns(headers).price_col) # Zero
          /\ Cardinality({k \in 1..Len(reply.targets) :
                             MatchesContract(DateCell(headers, rows[i]), <<reply.targets[k]>>)}) > 1

C8_TrailingAverages ==
    Reported /\ reply.op = "sales_today" =>
        /\ reply.history.seven_day_avg = TrailingAverage(7)
        /\ reply.history.thirty_day_avg = TrailingAverage(30)

C8_Witness ==
    /\ Reported /\ reply.op = "sales_today"
    /\ rows = <<RowB, RowOtherDay>>
    /\ headers = StdHeaders
    /\ now = FirstDay
    /\ reply.history.seven_day_avg = Rat(2469, 4)

\* C9: with a reference above 0 the streak's direction is 'above' iff the
\* current paid revenue exceeds the reference, and its count is the number of
\* leading days d0, d1, ... (at most 10) classified like the current value.
C9_Streaks ==
    Reported /\ reply.op = "sales_today" =>
        LET h == reply.history
            current == reply.metrics.paid_revenue
        IN  /\ RGt(h.seven_day_avg, Zero) => StreakAgrees(h.streak, current, h.seven_day_avg)
            /\ RGt(h.target_amount, Zero) =>
                  StreakAgrees(h.target_streak, current, h.target_amount)

C9_Witness ==
    /\ Reported /\ reply.op = "sales_today"
    /\ reply.history.streak.count = 2
    /\ reply.history.streak.type = "consecutive days below 7-day average"
    /\ reply.history.target_streak.count = 10
    /\ reply.history.target_streak.type = "days below target"

\* C10: every report that shows a monthly target shows the previous month's
\* paid revenue times 1.10 as the target and, the target being above 0, the
\* month-to-date paid revenue over the target times 100 as the achievement.
C10_TargetAndAchievement ==
    Reported =>
        /\ reply.op = "sales_today" =>
              /\ reply.history.target_amount = MonthlyTarget
              /\ RGt(MonthlyTarget, Zero) =>
                    reply.history.target_achievement = AchievementPercent
        /\ reply.op \in CustomAnalyses =>
              /\ reply.target_info.target_amount = MonthlyTarget
              /\ RGt(MonthlyTarget, Zero) =>
                    reply.target_info.percentage = AchievementPercent

\* C11: the comparator of a custom analysis takes exactly one branch, chosen by
\* the number L of requested dates: single_day iff L = 1, short_range iff
\* 2 <= L <= 13, two_weeks iff L = 14, monthly iff 15 <= L <= 32 and
\* long_period iff L > 32; the long period has no baseline and no percentage.
C11_ComparatorBranch ==
    Reported /\ reply.op \in CustomAnalyses =>
        LET L == Len(reply.dates)
            p == reply.performance_data
        IN  /\ p.context \in {"single_day", "short_range", "two_weeks", "monthly",
                              "long_period"}
            /\ p.context = "single_day" <=> L = 1
            /\ p.context = "short_range" <=> (2 <= L /\ L <= 13)
            /\ p.context = "two_weeks" <=> L = 14
            /\ p.context = "monthly" <=> (15 <= L /\ L <= 32)
            /\ p.context = "long_period" <=> L > 32
            /\ L > 32 => p.values = <<>> /\ p.diffs = <<>> /\ reply.performance_text = <<>>
            /\ L <= 32 => Len(p.values) = 3

C11_Witness ==
    /\ Reported /\ reply.op = "analyze_sales_for_dates"
    /\ Len(reply.dates) = 33
    /\ reply.performance_data.context = "long_period"
    /\ RGt(reply.metrics.paid_revenue, Zero)

\* the smallest day of a list of dates
Earliest(dates) == CHOOSE d \in SeqToSet(dates) : \A e \in SeqToSet(dates) : d <= e

\* C12: for every baseline above 0 and every current paid revenue, 0 included,
\* the comparison line of the baseline reports (current - baseline) / baseline
\* * 100; a baseline of 0 or less has no line.
C12_PercentDifference ==
    Reported /\ reply.op \in CustomAnalyses =>
        LET p == reply.performance_data
            current == reply.metrics.paid_revenue
        IN  \A k \in 1..Len(p.values) :
               IF RGt(p.values[k], Zero)
               THEN /\ k \in DOMAIN reply.performance_text
                    /\ reply.performance_text[k] =
                          RMul(RDiv(RSub(current, p.values[k]), p.values[k]), Hundred)
               ELSE k \notin DOMAIN reply.performance_text

\* C19: for 2 to 13 requested dates in whatever order, the previous-period
\* baseline is the paid revenue of the L consecutive days that end the day
\* before the earliest requested date.
C19_PreviousPeriod ==
    Reported /\ reply.op \in CustomAnalyses
             /\ 2 <= Len(reply.dates) /\ Len(reply.dates) <= 13 =>
        reply.performance_data.values[1] =
            PaidRevenueOfMonth((Earliest(reply.dates) - Len(reply.dates))
                                   ..(Earliest(reply.dates) - 1))

\* C13: the awaiting-date-input flag is read and cleared in one step: however
\* the text-message handlers of a user interleave, at most one of them sees
\* the flag set for each press of "Custom Date" (and none while it is clear).
C13_FlagTakenOnce ==
    \A u \in Users :
        /\ chat.seen[u] <= chat.pressed[u]
        /\ bot.awaiting_date_input[u] => chat.seen[u] < chat.pressed[u]

\* one press, a first handler still suspended at its await, and a second
\* handler that has answered with the help text
C13_Witness ==
    \E u \in Users :
        /\ chat.pressed[u] = 1 /\ chat.seen[u] = 1
        /\ tasks = <<u>>
        /\ reply.op = "handle_message" /\ reply.outcome = "help"

\* the sheets client is there, the fetch works, and the sheet holds a header
\* row and an order
ReadableLedger ==
    /\ bot.sheets_client # NoClient
    /\ env.fetch = "ok"
    /\ read_sheet.kind = "dict"
    /\ SheetHeaders = headers /\ headers # <<>>
    /\ SheetData = rows /\ rows # <<>>

\* C14: with a readable ledger, neither a failing summarization call nor a
\* missing summarization client keeps a report operation from sending the
\* figures; the text of the summarizer is replaced by a placeholder.
C14_ReportWithoutSummarizer ==
    reply.op \in Aggregations /\ ReadableLedger =>
        /\ Reported
        /\ bot.anthropic_client = NoClient \/ env.api # "ok" => reply.ai_insights = "unavailable"

\* C15: when the fetch of the ledger raises, the outcome tells the caller that
\* the source is unavailable, and is distinct from that of an empty ledger.
C15_SourceUnavailable ==
    reply.op \in Aggregations /\ bot.sheets_client # NoClient /\ bot.anthropic_client # NoClient
            /\ env.fetch # "ok" =>
        reply.outcome \notin {"no_data", "report"}

\* the sheet has no header row, or no row below it, where the client of the
\* deployment looks for them
NoHeaderOrNoData ==
    Len(SheetValues) <= (IF bot.sheets_client = LocalClient THEN 4 ELSE 1)

\* C16: with either sheets client and a sheet of any number of rows, a read
\* that finds no header row or no data rows makes the report end in "no data"
\* (not in the error reply of a caught exception).
C16_NoData ==
    reply.op \in Aggregations /\ bot.sheets_client # NoClient /\ bot.anthropic_client # NoClient
            /\ env.fetch = "ok" /\ NoHeaderOrNoData =>
        reply.outcome = "no_data"

\* a step of the bot: a handler replies, sets or clears a flag, or suspends
BotStep == (reply' # reply /\ reply' # NoReply) \/ bot' # bot \/ tasks' # tasks

\* C17: no operation of the bot writes to, appends to or clears the ledger.
C17_LedgerReadOnly == [][BotStep => headers' = headers /\ rows' = rows]_vars

C17_Witness ==
    /\ Reported /\ reply.op = "analyze_sales_for_dates"
    /\ Len(rows) = 2 /\ Len(reply.dates) = 13
    /\ RGt(reply.metrics.paid_revenue, Zero)

\* C18: the scheduled report sends no message when REPORT_CHAT_ID is empty or
\* not set.
C18_NoChatNoMessage ==
    reply.op = "send_scheduled_sales_report" /\ env.REPORT_CHAT_ID \in {Unset, ""} =>
        reply.outcome = "not_sent" /\ reply.chat_id = ""

\* a scheduled run without a chat id over a sheet that has a paid order of today
C18_Witness ==
    /\ reply.op = "send_scheduled_sales_report" /\ reply.outcome = "not_sent"
    /\ env.REPORT_CHAT_ID = ""
    /\ \E i \in 1..Len(rows) : PaidRow(headers, rows[i]) /\ RowOfDay(i, now)

\* the cell, stripped, is the date of a day of D in one of the four formats
DatedIn(cell, D) == \E d \in D : \E k \in 1..4 : Trimmed(cell) = get_date_formats(d)[k]

\* C20: the previous-month total is the sum of the parsed prices of exactly
\* the paid candidate rows whose order date lies in the previous calendar month
\* (December of the year before, in January); a row dated in another month, in
\* any of the four formats, adds nothing.
C20_PreviousMonthTotal ==
    Reported /\ reply.op = "sales_today" =>
        reply.history.last_month_total =
            SumPrices({i \in 1..Len(rows) :
                          /\ CandidateOrder(rows[i])
                          /\ PaidRow(headers, rows[i])
                          /\ DatedIn(DateCell(headers, rows[i]), PreviousMonth)},
                      headers, rows)

\* the name cell the fold reads: the header-resolved column
NameCell(hdr, row) ==
    IF Columns(hdr).name_col < Len(row) THEN Cell(row, Columns(hdr).name_col) ELSE ""

\* the customer name of a row: the trimmed name cell, the sentinel when blank
NameOrUnknown(hdr, row) ==
    IF Trimmed(NameCell(hdr, row)) = "" THEN "Unknown Customer" ELSE Trimmed(NameCell(hdr, row))

\* C21: every matched row whose name cell is missing, empty or blank after
\* trimming goes by the name 'Unknown Customer' in the customer set and in the
\* paid, unpaid and undelivered lists, and no such row makes the report fail.
C21_BlankNameIsUnknown ==
    reply.op \in Aggregations =>
        /\ reply.outcome # "error"
        /\ Reported =>
              LET m == reply.metrics
                  name_of == [k \in 1..Len(m.filtered_orders) |->
                                 NameOrUnknown(headers, rows[m.filtered_orders[k]])]
              IN  /\ m.customers = SeqToSet(name_of)
                  /\ SeqToSet(m.paid_customers) \cup SeqToSet(m.unpaid_customers)
                         = SeqToSet(name_of)
                  /\ SeqToSet(m.undelivered_orders) \subseteq SeqToSet(name_of)

\* the rows of the ledger whose date cell is not blank
DatedLedger == SelectSeq(rows, LAMBDA row : Trimmed(DateCell(headers, row)) # "")

\* C22: a candidate row whose date cell is blank after trimming matches no
\* target date: it is folded into no period aggregation, and the trailing
\* averages, streaks, month totals and comparator baselines are those of the
\* ledger without such rows.
C22_BlankDateMatchesNothing ==
    Reported /\ reply.op \in Aggregations =>
        /\ \A i \in SeqToSet(reply.metrics.filtered_orders) :
              Trimmed(DateCell(headers, rows[i])) # ""
        /\ reply.op = "sales_today" =>
              reply.history = HistoricalMetrics(reply.metrics.paid_revenue, headers,
                                                DatedLedger, now)
        /\ reply.op \in CustomAnalyses =>
              /\ reply.target_info = get_monthly_target_info(headers, DatedLedger, now)
              /\ reply.performance_data =
                    get_contextual_performance(reply.dates, reply.metrics.paid_revenue,
                                               headers, DatedLedger, now)

\* the cell is one of the four renderings of some calendar date of the ledgers
CanonicalCell(cell) == \E d \in MatchDays : \E k \in 1..4 : cell = get_date_formats(d)[k]

\* the paid revenue of the rows whose date cell is a rendering of day d
PaidRevenueDated(d) ==
    SumPrices({i \in 1..Len(rows) :
                  /\ PaidRow(headers, rows[i])
                  /\ DateCell(headers, rows[i]) \in SeqToSet(get_date_formats(d))},
              headers, rows)

\* C23: a date cell that is exactly one of the four renderings of a calendar
\* date D matches the format set of a target date D' only when D' = D: the
\* rows a period aggregation folds are dated on one of the requested dates,
\* and today's revenue in the daily report is that of the rows dated today
\* (a row dated '1/1/2025' is not counted for November 1, 2025).
C23_CanonicalDateMatchesOwnDay ==
    Reported /\ reply.op \in Aggregations =>
        /\ \A i \in SeqToSet(reply.metrics.filtered_orders) :
              CanonicalCell(DateCell(headers, rows[i])) =>
                  \E d \in SeqToSet(reply.dates) :
                      DateCell(headers, rows[i]) \in SeqToSet(get_date_formats(d))
        /\ reply.op = "sales_today" => reply.metrics.paid_revenue = PaidRevenueDated(now)

\* consecutive days in ascending order
Contiguous(dates) == \A i \in 1..(Len(dates) - 1) : dates[i + 1] = dates[i] + 1

\* the ledger without the orders dated on one of the days D
LedgerWithout(D) == SelectSeq(rows, LAMBDA row : ~DatedIn(DateCell(headers, row), D))

\* C24: for a contiguous ascending period of 1 to 32 requested dates no
\* baseline window of the comparator (previous period, rolling-average windows,
\* same period 30 or 365 days before, same weekday of earlier weeks) holds a
\* requested date: each of these baselines is what it would be without the
\* orders of the requested dates.
C24_BaselinesExcludeRequested ==
    Reported /\ reply.op \in CustomAnalyses /\ Contiguous(reply.dates)
             /\ Len(reply.dates) <= 32 =>
        LET p == reply.performance_data
            clean == BaselineValues(p.context, reply.dates[1], Len(reply.dates), headers,
                                    LedgerWithout(SeqToSet(reply.dates)), now)
        IN  \A k \in 1..Len(p.values) :
               (p.context = "single_day" /\ k = 1) \/ p.values[k] = clean[k]

\* the trailing average of the n days that end on day d
TrailingAverageAt(d, n) ==
    LET window == (d - n + 1)..d
        days_with_orders == {e \in window : \E i \in 1..Len(rows) : RowOfDay(i, e)}
    IN  IF days_with_orders = {} THEN Zero
        ELSE RDiv(PaidRevenueOfDays(1, window), FromInt(Cardinality(days_with_orders)))

\* C25: in the analysis of a single requested date D the 7-day average
\* baseline is the trailing average of the 7 calendar days that end on D.
C25_SevenDaysEndOnRequestedDate ==
    Reported /\ reply.op \in CustomAnalyses /\ Len(reply.dates) = 1 =>
        reply.performance_data.values[1] = TrailingAverageAt(reply.dates[1], 7)

\* cell col of the row (indexed from 0) is there and not blank
FilledAt(row, col) == col < Len(row) /\ Trimmed(Cell(row, col)) # ""

\* the validity test on the cells the header row resolves: the date and name
\* columns of the headers (2 and 3 without the header), and the summary
ValidByHeaders(hdr, row) ==
    /\ Len(row) >= 12
    /\ \/ FilledAt(row, Columns(hdr).date_col)
       \/ FilledAt(row, Columns(hdr).name_col)
       \/ FilledAt(row, 11)

\* C26: for every header row the validity test reads the date and name cells
\* that the date matching and the customer name read afterwards, those at the
\* header-resolved 'Order Date' and 'Name' columns (2 and 3 only when the
\* header is absent): the folded rows are the rows valid by these cells whose
\* date cell matches.
C26_ValidityReadsResolvedColumns ==
    Reported /\ reply.op \in Aggregations =>
        SeqToSet(reply.metrics.filtered_orders) =
            {i \in 1..Len(rows) :
                /\ ValidByHeaders(headers, rows[i])
                /\ MatchesContract(DateCell(headers, rows[i]), reply.targets)}

\* C27: the local and the hosted sheets client are equivalent for
\* read_sheet(sheet_name='ORDER', range_name='A:AF'): for the sheet a report
\* has read, both return the same header row and the same data rows in the
\* same {'headers', 'data'} shape.
C27_ClientsEquivalent ==
    reply.op \in Aggregations /\ reply.outcome # "unavailable" /\ env.fetch = "ok" =>
        LET hosted == SimpleGoogleSheetsClient_read_sheet(SheetValues, env.fetch)
            local == GoogleSheetsClient_read_sheet(SheetValues, env.fetch)
        IN  /\ hosted.kind = "dict" /\ local.kind = "dict"
            /\ hosted.headers = local.headers
            /\ hosted.data = local.data

\* C28: the awaiting-date-input flag of a user u is changed by two actions
\* only: u's press of "Custom Date" sets it, and u's text message while it is
\* set clears it, before the date is parsed and whatever the parser answers.
\* Every other step (another button of u, the resumed analysis, a command, a
\* press or message of another user) leaves u's flag as it was.
C28_FlagFrame ==
    [][\A u \in Senders :
          LET flag == bot.awaiting_date_input[u]
              flag_after == bot'.awaiting_date_input[u]
              pressed_custom == chat'.pressed[u] = chat.pressed[u] + 1
              message_taken == chat'.seen[u] = chat.seen[u] + 1
          IN  /\ pressed_custom => flag_after /\ reply'.outcome = "ask_date"
              /\ message_taken => flag /\ ~flag_after
              /\ ~pressed_custom /\ ~message_taken => flag_after = flag]_vars

\* both users have pressed "Custom Date"; the message of u2 has been taken and
\* its handler is suspended, and the flag of u1 is still set
C28_Witness ==
    /\ chat.pressed = [u \in TwoUsers |-> 1]
    /\ chat.seen = [u \in TwoUsers |-> IF u = "u2" THEN 1 ELSE 0]
    /\ tasks = <<"u2">>
    /\ bot.awaiting_date_input = [u \in TwoUsers |-> u = "u1"]

\* C29: on the button path and on the text path the dates handed to the
\* aggregator and the comparator are requested dates that are not after the
\* current Philippine date; when no requested date qualifies no aggregation is
\* run and the user is told that no data is available; and available_count +
\* future_count <= total_requested.
C29_OnlyAvailableDates ==
    reply.requested # <<>> =>
        LET a == reply.availability
        IN  /\ a.available_count + a.future_count <= a.total_requested
            /\ a.total_requested = Len(reply.requested)
            /\ \A k \in 1..Len(reply.dates) :
                  reply.dates[k] <= now /\ reply.dates[k] \in SeqToSet(reply.requested)
            /\ reply.dates = SelectSeq(reply.requested,
                                       LAMBDA d : d \in DaysFromCivil(1970, 1, 1)..now)
            /\ a.available_count = 0 <=> reply.outcome = "no_history"
            /\ reply.outcome = "no_history" =>
                  reply.metrics = NoMetrics /\ reply.performance_data = NoPerformance

\* a typed request of a string that is no date, today and tomorrow: today alone
\* is analysed
C29_Witness ==
    /\ Reported /\ reply.op = "analyze_sales_for_dates"
    /\ reply.requested = <<Unparsable, now, now + 1>>
    /\ reply.dates = <<now>>
    /\ reply.availability.available_count = 1 /\ reply.availability.future_count = 1
    /\ RGt(reply.metrics.paid_revenue, Zero)

\* C30: after an aggregation every matched row is in exactly one of
\* paid_customers and unpaid_customers (the paid rows in the first, the others
\* in the second, so the lengths sum to the number of matched rows), the
\* customer set is the set of the names of the two lists, every undelivered
\* name is in the customer set, and no paid-only category total exceeds the
\* all-orders total of the category.
C30_ListsPartitionMatchedRows ==
    Reported /\ reply.op \in Aggregations =>
        LET m == reply.metrics
            matched == m.filtered_orders
            paid_rows == {k \in 1..Len(matched) : PaidRow(headers, rows[matched[k]])}
        IN  /\ Len(m.paid_customers) = Cardinality(paid_rows)
            /\ Len(m.unpaid_customers) = Len(matched) - Cardinality(paid_rows)
            /\ Len(m.paid_customers) + Len(m.unpaid_customers) = Len(matched)
            /\ m.customers = SeqToSet(m.paid_customers) \cup SeqToSet(m.unpaid_customers)
            /\ SeqToSet(m.undelivered_orders) \subseteq m.customers
            /\ \A k \in 1..4 : /\ m.paid_pouches[k] <= m.pouches[k]
                               /\ m.paid_tubs[k] <= m.tubs[k]

\* a paid and an unpaid order with pouches, the unpaid one not delivered
C30_Witness ==
    /\ Reported /\ reply.op = "sales_today"
    /\ Len(reply.metrics.paid_customers) = 1 /\ Len(reply.metrics.unpaid_customers) = 1
    /\ reply.metrics.undelivered_orders # <<>>
    /\ reply.metrics.paid_pouches[1] > 0
    /\ reply.metrics.pouches[1] > reply.metrics.paid_pouches[1]
====
